---------------------------- MODULE Spec2Model ----------------------------
(***************************************************************************)
(* A model of pycheddar, the CheddarGetter client library: the transport   *)
(* (CheddarGetter.request), the generic record (CheddarObject) with its    *)
(* dirty tracking, the XML loader and the resource kinds.                  *)
(*                                                                         *)
(* One record is followed from its construction through the operations a   *)
(* caller can apply to it.  The server is the environment: what it answers *)
(* to a request is chosen nondeterministically from a bounded set.         *)
(***************************************************************************)
EXTENDS Integers, Sequences, FiniteSets, TLC

VARIABLES obj,      \* the record under observation (its __dict__)
          phase,    \* how the record got where it is ("new", "loaded", ...)
          last,     \* the last operation: name, arguments, exception, result
          sent      \* the HTTP requests the last operation posted, in order

vars == <<obj, phase, last, sent>>

-----------------------------------------------------------------------------
(* Bounds of the model *)

\* quantities and numeric texts range over 0 .. MaxQuantity
MaxQuantity == 1

\* the server hands out the identifiers "id1" .. "id<NumIds>"
NumIds == 2

\* the nested calls of __setattr__ the interpreter allows before it raises
\* RuntimeError (sys.getrecursionlimit(), 1000 frames by default)
RecursionLimit == 3

-----------------------------------------------------------------------------
(* Python values *)

\* A Python string is the sequence of its characters, each a one-character
\* string: "c1" is <<"c", "1">> and the empty string is <<>>.

\* None, for the attributes that hold a string or None (_id, _code, the text
\* of an XML element): no string, since no character is "None"
NoneS == <<"None">>

\* floats are counted in units of 1e-7, so that 1.0 is Unit units
Unit == 10000000

\* the tolerance of Plan.is_free, 0.000001, in the same units
Epsilon == 10

NoneV == [t |-> "none", v |-> 0]
IntV(n) == [t |-> "int", v |-> n]
FloatV(u) == [t |-> "float", v |-> u]
StrV(s) == [t |-> "str", v |-> s]
ObjV(o) == [t |-> "obj", v |-> o]
ListV(l) == [t |-> "list", v |-> l]

IsNumber(a) == a.t \in {"int", "float"}

ToUnits(a) == IF a.t = "int" THEN a.v * Unit ELSE a.v

\* Python's ==  on scalars: numbers compare by value, anything else by
\* type and value
PyEq(a, b) ==
    IF IsNumber(a) /\ IsNumber(b) /\ a.t # b.t THEN ToUnits(a) = ToUnits(b)
    ELSE a.t = b.t /\ a.v = b.v

\* Python's +  on two numbers
PyAdd(a, b) ==
    IF a.t = "int" /\ b.t = "int" THEN IntV(a.v + b.v)
    ELSE FloatV(ToUnits(a) + ToUnits(b))

\* Python's truth value of a scalar
Truthy(a) ==
    CASE a.t = "none" -> FALSE
      [] a.t = "str" -> a.v # <<>>
      [] a.t \in {"int", "float"} -> a.v # 0
      [] OTHER -> TRUE

\* a string-or-None attribute as a scalar value
OfStr(s) == IF s = NoneS THEN NoneV ELSE StrV(s)

EmptyMap == [k \in {} |-> NoneV]

\* m with key k bound to x
Put(m, k, x) == [j \in DOMAIN m \cup {k} |-> IF j = k THEN x ELSE m[j]]

-----------------------------------------------------------------------------
(* Field names (utils.to_underscores, utils.to_camel_case) *)

\* the camelCase names of the model and their snake_case forms
CamelNames == {"firstName", "lastName", "planCode", "ccNumber",
               "ccExpiration", "quantityIncluded", "metaData",
               "setupChargeAmount", "recurringChargeAmount", "ccZip"}

to_underscores(key) ==
    CASE key = "firstName" -> "first_name"
      [] key = "lastName" -> "last_name"
      [] key = "planCode" -> "plan_code"
      [] key = "ccNumber" -> "cc_number"
      [] key = "ccExpiration" -> "cc_expiration"
      [] key = "quantityIncluded" -> "quantity_included"
      [] key = "metaData" -> "meta_data"
      [] key = "setupChargeAmount" -> "setup_charge_amount"
      [] key = "recurringChargeAmount" -> "recurring_charge_amount"
      [] key = "ccZip" -> "cc_zip"
      [] OTHER -> key

to_camel_case(key) ==
    CASE key = "first_name" -> "firstName"
      [] key = "last_name" -> "lastName"
      [] key = "plan_code" -> "planCode"
      [] key = "cc_number" -> "ccNumber"
      [] key = "cc_expiration" -> "ccExpiration"
      [] key = "quantity_included" -> "quantityIncluded"
      [] key = "cc_first_name" -> "ccFirstName"
      [] key = "cc_last_name" -> "ccLastName"
      [] key = "cc_card_code" -> "ccCardCode"
      [] key = "cc_zip" -> "ccZip"
      [] key = "cc_address" -> "ccAddress"
      [] key = "coupon_code" -> "couponCode"
      [] key = "meta_data" -> "metaData"
      [] key = "setup_charge_amount" -> "setupChargeAmount"
      [] key = "recurring_charge_amount" -> "recurringChargeAmount"
      [] key = "item_code" -> "itemCode"
      [] key = "charge_code" -> "chargeCode"
      [] key = "each_amount" -> "eachAmount"
      [] key = "subscription[plan_code]" -> "subscription[planCode]"
      [] key = "subscription[coupon_code]" -> "subscription[couponCode]"
      [] key = "subscription[cc_first_name]" -> "subscription[ccFirstName]"
      [] key = "subscription[cc_last_name]" -> "subscription[ccLastName]"
      [] key = "subscription[cc_number]" -> "subscription[ccNumber]"
      [] key = "subscription[cc_expiration]" -> "subscription[ccExpiration]"
      [] key = "subscription[cc_card_code]" -> "subscription[ccCardCode]"
      [] key = "subscription[cc_zip]" -> "subscription[ccZip]"
      [] key = "subscription[cc_address]" -> "subscription[ccAddress]"
      [] key = "metaData[a_b]" -> "metaData[aB]"
      [] OTHER -> key

\* the names that start with "_" (key[0] == '_')
PrivateNames == {"_cursor", "_product_code", "_clean_plan", "_clean_items",
                 "_clean_subscription", "_clean_transaction",
                 "_clean_customer", "_clean_invoices", "_clean_meta_data",
                 "_clean_other"}

IsPrivate(key) == key \in PrivateNames

\* the attributes of a dict that __getattr__ finds on self._data first
DictMethods == {"get", "items", "keys", "values", "update", "pop", "copy",
                "clear", "iteritems", "has_key", "setdefault"}

-----------------------------------------------------------------------------
(* The generic record: CheddarObject *)

\* the classes of the module
Kinds == {"CheddarObject", "Plan", "Promotion", "Customer", "Subscription",
          "Item", "Invoice", "Charge", "Transaction", "Coupon", "Incentive",
          "Metadatum"}

\* CheddarObject.__init__ before the parent and the keyword arguments are
\* set: an object is its _id, _code, _data, _clean_data and the rest of its
\* __dict__ (private attributes and associations)
BareObject(kind) ==
    [kind |-> kind, id |-> NoneS, code |-> NoneS,
     data |-> EmptyMap, clean |-> EmptyMap, dict |-> EmptyMap]

\* the result of a method: the object afterwards, the exception raised
\* ("none" when it returned), the value returned and the requests posted
Result(o, exc, ret, reqs) == [obj |-> o, exc |-> exc, ret |-> ret, sent |-> reqs]

Ok(o) == Result(o, "none", NoneV, <<>>)

Raise(o, exc) == Result(o, exc, NoneV, <<>>)

BaseSetAttrCodeWithoutGuard(o, key, value) ==
    CASE IsPrivate(key) ->
            Ok([o EXCEPT !.dict = Put(@, key, value)])
      [] key = "code" ->
            Ok([o EXCEPT !.code = IF value.t = "none" THEN NoneS ELSE value.v])
      [] key = "id" ->
            Raise(o, "AttributeError")
      [] value.t \in {"obj", "list"} ->
            Ok([o EXCEPT !.dict = Put(@, key, value)])
      [] OTHER ->
            Ok([o EXCEPT !.data = Put(@, to_underscores(key), value)])

\* CheddarObject.__setattr__
BaseSetAttr(o, key, value) ==
    CASE IsPrivate(key) ->
            Ok([o EXCEPT !.dict = Put(@, key, value)])
      [] key = "code" ->
            IF o.id = NoneS
            THEN Ok([o EXCEPT !.code = IF value.t = "none" THEN NoneS ELSE value.v])
            ELSE Raise(o, "AttributeError")
      [] key = "id" ->
            Raise(o, "AttributeError")
      [] value.t \in {"obj", "list"} ->
            Ok([o EXCEPT !.dict = Put(@, key, value)])
      [] OTHER ->
            Ok([o EXCEPT !.data = Put(@, to_underscores(key), value)])

\* hasattr(self, key): the class attributes aside, what __getattr__ finds
HasAttr(o, key) ==
    \/ key \in DictMethods
    \/ key \in {"id", "code"}
    \/ key \in DOMAIN o.dict
    \/ (~IsPrivate(key) /\ key \in DOMAIN o.data)

\* CheddarObject.__contains__
Contains(o, key) ==
    CASE key \in {"id", "_id"} -> o.id # NoneS
      [] key \in {"code", "_code"} -> o.code # NoneS
      [] OTHER -> key \in DOMAIN o.data

\* CheddarObject.is_new
is_new(o) == ~Contains(o, "id")

\* CheddarObject.__eq__
ObjEq(a, b) == a.id = b.id /\ a.id # NoneS

\* CheddarObject.__ne__
ObjNe(a, b) == ~ObjEq(a, b)


-----------------------------------------------------------------------------
(* Characters and the conversions the code applies to strings *)

Digits == {"0", "1", "2", "3", "4", "5", "6", "7", "8", "9"}

HexLower == Digits \cup {"a", "b", "c", "d", "e", "f"}

DigitValue(c) ==
    CASE c = "0" -> 0 [] c = "1" -> 1 [] c = "2" -> 2 [] c = "3" -> 3
      [] c = "4" -> 4 [] c = "5" -> 5 [] c = "6" -> 6 [] c = "7" -> 7
      [] c = "8" -> 8 [] c = "9" -> 9

\* re.match(r'^[\d]+$', s)
IsAllDigits(s) == Len(s) > 0 /\ \A i \in 1..Len(s) : s[i] \in Digits

\* re.match(r'^[\d.]+$', s)
IsDigitsAndDots(s) == Len(s) > 0 /\ \A i \in 1..Len(s) : s[i] \in Digits \cup {"."}

\* int(s) of a string of digits
RECURSIVE ParseInt(_)
ParseInt(s) ==
    IF s = <<>> THEN 0
    ELSE 10 * ParseInt(SubSeq(s, 1, Len(s) - 1)) + DigitValue(s[Len(s)])

\* the digits d1 d2 ... after the point, as a number of units of 1e-7
RECURSIVE ParseFraction(_, _)
ParseFraction(s, weight) ==
    IF s = <<>> \/ weight = 0 THEN 0
    ELSE DigitValue(s[1]) * weight + ParseFraction(Tail(s), weight \div 10)

DotCount(s) == Cardinality({i \in 1..Len(s) : s[i] = "."})

\* float(s) of a string of digits and dots is defined when s has one dot at
\* most and a digit
FloatDefined(s) == DotCount(s) <= 1 /\ Len(s) > DotCount(s)

\* float(s), in units of 1e-7
ParseFloat(s) ==
    IF DotCount(s) = 0 THEN ParseInt(s) * Unit
    ELSE LET dot == CHOOSE i \in 1..Len(s) : s[i] = "."
         IN  ParseInt(SubSeq(s, 1, dot - 1)) * Unit
               + ParseFraction(SubSeq(s, dot + 1, Len(s)), Unit \div 10)

\* re.sub(r'[\D]', '', s)
StripNonDigits(s) == SelectSeq(s, LAMBDA c : c \in Digits)

-----------------------------------------------------------------------------
(* The diff: _build_kwargs, _is_clean *)

DirtyKeysIgnoringSnapshot(o) == {k \in DOMAIN o.data : o.data[k].t # "obj"}

\* the keys of _data that _build_kwargs keeps: not a CheddarObject, and not
\* equal to the last-synced value
DirtyKeys(o) ==
    {k \in DOMAIN o.data :
        /\ o.data[k].t # "obj"
        /\ ~(k \in DOMAIN o.clean /\ PyEq(o.clean[k], o.data[k]))}

\* CheddarObject._build_kwargs
BaseBuildKwargs(o) == [k \in DirtyKeys(o) |-> o.data[k]]

\* Subscription._build_kwargs
SubscriptionBuildKwargs(o) ==
    IF ObjNe(o.dict["plan"].v, o.dict["_clean_plan"].v)
    THEN Put(BaseBuildKwargs(o), "plan_code", OfStr(o.dict["plan"].v.code))
    ELSE BaseBuildKwargs(o)

\* _build_kwargs of the object's class
BuildKwargs(o) ==
    IF o.kind = "Subscription" THEN SubscriptionBuildKwargs(o)
    ELSE BaseBuildKwargs(o)

\* CheddarObject._is_clean
IsClean(o) == DOMAIN BuildKwargs(o) = {}


-----------------------------------------------------------------------------
(* Attribute assignment of the resource kinds *)

DigitChar(d) ==
    CASE d = 0 -> "0" [] d = 1 -> "1" [] d = 2 -> "2" [] d = 3 -> "3"
      [] d = 4 -> "4" [] d = 5 -> "5" [] d = 6 -> "6" [] d = 7 -> "7"
      [] d = 8 -> "8" [] d = 9 -> "9"

\* str(year)[0:2] of a four-digit year
Century(year) == <<DigitChar(year \div 1000), DigitChar((year \div 100) % 10)>>

\* Subscription.__setattr__, the cc_expiration branch: the value stored, or
\* the exception raised, in the calendar year `year`
NormalizeExpiration(value, year) ==
    IF value.t # "str" THEN [exc |-> "TypeError", value |-> value]
    ELSE IF Len(value.v) < 3 THEN [exc |-> "IndexError", value |-> value]
    ELSE LET slashed == IF value.v[3] # "/"
                        THEN SubSeq(value.v, 1, 2) \o <<"/">> \o SubSeq(value.v, 3, Len(value.v))
                        ELSE value.v
         IN  IF Len(slashed) # 5 THEN [exc |-> "none", value |-> StrV(slashed)]
             \* int(value[2:]) is int("/YY"), which raises ValueError
             ELSE IF year % 100 > 90 THEN [exc |-> "ValueError", value |-> value]
             ELSE [exc |-> "none",
                   value |-> StrV(SubSeq(slashed, 1, 3) \o Century(year)
                                    \o SubSeq(slashed, 4, 5))]

\* Subscription.__setattr__ for every key but plan and plan_code, which go
\* through the plan lookup
SubscriptionSetAttr(o, key, value, year) ==
    CASE to_underscores(key) = "cc_number" ->
            IF value.t = "str"
            THEN BaseSetAttr(o, key, StrV(StripNonDigits(value.v)))
            ELSE Raise(o, "TypeError")
      [] to_underscores(key) = "cc_expiration" ->
            LET n == NormalizeExpiration(value, year)
            IN  IF n.exc = "none" THEN BaseSetAttr(o, key, n.value)
                ELSE Raise(o, n.exc)
      [] OTHER -> BaseSetAttr(o, key, value)

\* Item.__setattr__
ItemSetAttr(o, key, value) ==
    IF key = "quantity" /\ HasAttr(o, "plan")
    THEN BaseSetAttr(o, "quantity_included", value)
    ELSE BaseSetAttr(o, key, value)

\* setattr(o, key, value) through the __setattr__ of o's class
SetAttr(o, key, value, year) ==
    CASE o.kind = "Subscription" -> SubscriptionSetAttr(o, key, value, year)
      [] o.kind = "Item" -> ItemSetAttr(o, key, value)
      [] OTHER -> BaseSetAttr(o, key, value)

-----------------------------------------------------------------------------
(* Construction *)

\* parent.__class__.__name__.lower()
LowerName(kind) ==
    CASE kind = "Customer" -> "customer"
      [] kind = "Subscription" -> "subscription"
      [] kind = "Plan" -> "plan"
      [] kind = "Invoice" -> "invoice"
      [] kind = "Item" -> "item"
      [] OTHER -> "cheddarobject"

\* what a child keeps of its parent: the parent's class and identity at the
\* time the child is made (the parent itself holds the child)
ParentOf(o) == ObjV([BareObject(o.kind) EXCEPT !.id = o.id, !.code = o.code])

NoParent == NoneV

\* CheddarObject.__init__(parent), no keyword arguments
BaseInit(o, parent) ==
    IF parent.t = "none" THEN o
    ELSE [o EXCEPT !.dict = Put(@, LowerName(parent.v.kind), parent)]

\* Subscription.__init__: plan and _clean_plan are one new Plan
SubscriptionInit(parent) ==
    LET plan == ObjV(BareObject("Plan"))
        o == [BareObject("Subscription") EXCEPT
                !.dict = Put(Put(@, "_clean_plan", plan), "plan", plan)]
    IN  BaseInit(o, parent)

\* Customer.__init__: a customer owns a new subscription and an empty list
\* of metadata
CustomerInit ==
    LET o == BareObject("Customer")
    IN  [o EXCEPT !.dict = Put(Put(@, "subscription",
                                   ObjV(SubscriptionInit(ParentOf(o)))),
                               "meta_data", ListV(<<>>))]

\* cls(parent=parent)
Construct(kind, parent) ==
    CASE kind = "Customer" -> CustomerInit
      [] kind = "Subscription" -> SubscriptionInit(parent)
      [] OTHER -> BaseInit(BareObject(kind), parent)


-----------------------------------------------------------------------------
(* XML elements and the loader: from_xml, _load_data_from_xml *)

\* an element: its tag, its id and code attributes (None when absent), its
\* text (None when absent) and its child elements
Node(tag, id, code, kids) ==
    [tag |-> tag, id |-> id, code |-> code, text |-> NoneS, kids |-> kids]

Leaf(tag, text) ==
    [tag |-> tag, id |-> NoneS, code |-> NoneS, text |-> text, kids |-> <<>>]

\* the relationships with one child object
singles == {<<"customer", "subscriptions">>, <<"subscription", "plans">>,
            <<"invoice", "transactions">>}

\* the class named tag.capitalize() in the module, "none" when there is none
ClassNamed(tag) ==
    CASE tag = "plan" -> "Plan"
      [] tag = "promotion" -> "Promotion"
      [] tag = "customer" -> "Customer"
      [] tag = "subscription" -> "Subscription"
      [] tag = "item" -> "Item"
      [] tag = "invoice" -> "Invoice"
      [] tag = "charge" -> "Charge"
      [] tag = "transaction" -> "Transaction"
      [] tag = "coupon" -> "Coupon"
      [] tag = "incentive" -> "Incentive"
      [] tag = "metaDatum" -> "Metadatum"
      [] OTHER -> "none"

\* '_clean_' + key
CleanName(key) ==
    CASE key = "plan" -> "_clean_plan"
      [] key = "subscription" -> "_clean_subscription"
      [] key = "transaction" -> "_clean_transaction"
      [] key = "items" -> "_clean_items"
      [] key = "customer" -> "_clean_customer"
      [] key = "invoices" -> "_clean_invoices"
      [] key = "meta_data" -> "_clean_meta_data"
      [] OTHER -> "_clean_other"

\* the value of a leaf element: numeric-looking text becomes a number
\* (float() raises ValueError on text such as "1.2.3")
ConvertText(text) ==
    CASE text = NoneS -> [exc |-> "none", value |-> NoneV]
      [] text # NoneS /\ IsAllDigits(text) ->
            [exc |-> "none", value |-> IntV(ParseInt(text))]
      [] text # NoneS /\ ~IsAllDigits(text) /\ IsDigitsAndDots(text) ->
            IF FloatDefined(text)
            THEN [exc |-> "none", value |-> FloatV(ParseFloat(text))]
            ELSE [exc |-> "ValueError", value |-> NoneV]
      [] OTHER -> [exc |-> "none", value |-> StrV(text)]

\* setattr as the loader uses it, on objects and lists: Subscription's
\* __setattr__ hands these to CheddarObject.__setattr__ under the names the
\* server's elements carry
LoaderSetAttr(o, key, value) ==
    IF o.kind = "Item" THEN ItemSetAttr(o, key, value).obj
    ELSE BaseSetAttr(o, key, value).obj

Loaded(o, exc) == [obj |-> o, exc |-> exc]

RECURSIVE LoadChildren(_, _, _, _)
RECURSIVE LoadList(_, _, _)

\* CheddarObject._load_data_from_xml
LoadXml(o, xml, clean) ==
    LoadChildren([o EXCEPT !.id = xml.id, !.code = xml.code], xml, 1, clean)

\* CheddarObject.from_xml(xml, parent=parent)
FromXml(kind, xml, parent) == LoadXml(Construct(kind, parent), xml, TRUE)

\* setattr(self, key, value) followed by setattr(self, '_clean_' + key, value)
SetWithClean(o, key, value) ==
    LoaderSetAttr(LoaderSetAttr(o, key, value), CleanName(key), value)

\* the list so far with the object made from the next element before the
\* objects made from the elements after it
Appended(made, rest) ==
    IF made.exc # "none" THEN [list |-> <<>>, exc |-> made.exc]
    ELSE [list |-> <<made.obj>> \o rest.list, exc |-> rest.exc]

\* the objects of a list relationship, one per element, up to the first
\* element whose tag names no class
LoadList(kids, i, parent) ==
    IF i > Len(kids) \/ ClassNamed(kids[i].tag) = "none"
    THEN [list |-> <<>>, exc |-> "none"]
    ELSE Appended(FromXml(ClassNamed(kids[i].tag), kids[i], parent),
                  LoadList(kids, i + 1, parent))

\* a one-to-one relationship: the object made from the single element is
\* set under the element's tag
SetSingle(o, tag, made) ==
    IF made.exc # "none" THEN Loaded(o, made.exc)
    ELSE Loaded(SetWithClean(o, tag, ObjV(made.obj)), "none")

\* a list relationship: the empty list first, then the objects made
SetList(o, key, made) ==
    IF made.list = <<>> THEN Loaded(LoaderSetAttr(o, key, ListV(<<>>)), made.exc)
    ELSE Loaded(SetWithClean(o, key, ListV(made.list)), made.exc)

\* a child element with children of its own
LoadRelation(o, xml, child) ==
    IF <<xml.tag, child.tag>> \in singles
    THEN IF ClassNamed(child.kids[1].tag) = "none" THEN Loaded(o, "none")
         ELSE SetSingle(o, child.kids[1].tag,
                        FromXml(ClassNamed(child.kids[1].tag), child.kids[1],
                                ParentOf(o)))
    ELSE SetList(o, to_underscores(child.tag),
                 LoadList(child.kids, 1, ParentOf(o)))

\* setattr(self, key, value) of a converted value, and its snapshot
SetField(o, key, conv, clean) ==
    IF conv.exc # "none" THEN Loaded(o, conv.exc)
    ELSE Loaded([o EXCEPT !.data = Put(@, key, conv.value),
                          !.clean = IF clean THEN Put(@, key, conv.value) ELSE @],
                "none")

\* a child element without children
LoadField(o, xml, child, clean) ==
    IF ConvertText(child.text).exc # "none"
    THEN Loaded(o, ConvertText(child.text).exc)
    ELSE SetField(IF child.text = NoneS /\ <<xml.tag, child.tag>> \in singles
                     /\ ClassNamed(child.tag) # "none"
                  THEN LoaderSetAttr(o, to_underscores(child.tag),
                                     ObjV(Construct(ClassNamed(child.tag),
                                                    ParentOf(o))))
                  ELSE o,
                  to_underscores(child.tag), ConvertText(child.text), clean)

\* one pass of the loop over xml.getchildren()
LoadChild(o, xml, child, clean) ==
    IF child.kids # <<>> THEN LoadRelation(o, xml, child)
    ELSE LoadField(o, xml, child, clean)

\* the rest of the loop, unless the pass raised
LoadRest(r, xml, i, clean) ==
    IF r.exc # "none" THEN r ELSE LoadChildren(r.obj, xml, i + 1, clean)

\* the loop over xml.getchildren(), from the i-th child on
LoadChildren(o, xml, i, clean) ==
    IF i > Len(xml.kids) THEN Loaded(o, "none")
    ELSE LoadRest(LoadChild(o, xml, xml.kids[i], clean), xml, i, clean)


-----------------------------------------------------------------------------
(* The transport: CheddarGetter.request *)

\* path.strip('/')
RECURSIVE StripSlashes(_)
StripSlashes(s) ==
    IF s = <<>> THEN s
    ELSE IF Head(s) = "/" THEN StripSlashes(Tail(s))
    ELSE IF s[Len(s)] = "/" THEN StripSlashes(SubSeq(s, 1, Len(s) - 1))
    ELSE s

\* s[-3:]
LastThree(s) == IF Len(s) <= 3 THEN s ELSE SubSeq(s, Len(s) - 2, Len(s))

\* the path names an object-creation endpoint
IsCreationPath(path) == LastThree(StripSlashes(path)) = <<"n", "e", "w">>

UuidDashes == {9, 14, 19, 24}

UuidLength == 36

IsUuidIgnoringCase(s) ==
    /\ Len(s) = UuidLength
    /\ \A i \in 1..UuidLength :
          IF i \in UuidDashes THEN s[i] = "-"
          ELSE s[i] \in HexLower \cup {"A", "B", "C", "D", "E", "F"}

\* re.match(r'^[0-9a-f]{8}-[0-9a-f]{4}-[0-9a-f]{4}-[0-9a-f]{4}-[0-9a-f]{12}$', s);
\* $ also matches before a newline that ends the string
IsUuid(s) ==
    /\ \/ Len(s) = UuidLength
       \/ (Len(s) = UuidLength + 1 /\ s[UuidLength + 1] = "\n")
    /\ \A i \in 1..UuidLength :
          IF i \in UuidDashes THEN s[i] = "-" ELSE s[i] \in HexLower

\* the keys of the model that hold a "_"
UnderscoreNames == {"first_name", "last_name", "plan_code", "cc_number",
                    "cc_expiration", "quantity_included", "cc_first_name",
                    "cc_last_name", "cc_card_code", "cc_zip", "cc_address",
                    "item_code", "charge_code", "each_amount", "meta_data",
                    "setup_charge_amount", "recurring_charge_amount",
                    "coupon_code", "subscription[plan_code]",
                    "subscription[coupon_code]", "subscription[cc_first_name]",
                    "subscription[cc_last_name]", "subscription[cc_number]",
                    "subscription[cc_expiration]", "subscription[cc_card_code]",
                    "subscription[cc_zip]", "subscription[cc_address]",
                    "metaData[a_b]"}

\* the keyword arguments with every key that holds a "_" renamed to
\* camelCase
Mangle(kwargs) ==
    LET name(k) == IF k \in UnderscoreNames THEN to_camel_case(k) ELSE k
    IN  [j \in {name(k) : k \in DOMAIN kwargs} |->
            kwargs[CHOOSE k \in DOMAIN kwargs : name(k) = j]]

\* the exception class of an HTTP error status
ExceptionForIgnoring412(status) ==
    CASE status = 400 -> "BadRequest"
      [] status = 401 -> "AuthorizationRequired"
      [] status = 403 -> "Forbidden"
      [] status = 404 -> "NotFound"
      [] status = 422 -> "GatewayFailure"
      [] status = 502 -> "GatewayConnectionError"
      [] OTHER -> "UnexpectedResponse"

\* exception_map.get(response.status_code, UnexpectedResponse)
ExceptionFor(status) ==
    CASE status = 400 -> "BadRequest"
      [] status = 401 -> "AuthorizationRequired"
      [] status = 403 -> "Forbidden"
      [] status = 404 -> "NotFound"
      [] status = 412 -> "BadRequest"
      [] status = 422 -> "GatewayFailure"
      [] status = 502 -> "GatewayConnectionError"
      [] OTHER -> "UnexpectedResponse"

\* response.raise_for_status() raises HTTPError for the 4xx and 5xx codes
RaisesForStatus(status) == 400 <= status /\ status < 600

\* a body that is no XML
NotXml == [parsed |-> FALSE, root |-> Leaf("", NoneS)]

XmlBody(root) == [parsed |-> TRUE, root |-> root]

\* what the network and the server do with one POST: the connection
\* ("ok", "timeout", "refused"), the status code and the body
Answer(conn, status, body) == [conn |-> conn, status |-> status, body |-> body]

\* what request() does: the exception raised ("none" when it returned),
\* its message and whether it carries the response, the POSTs issued (the
\* URL and the fields of each) and the root returned
Outcome(exc, msg, carries, posted, content) ==
    [exc |-> exc, msg |-> msg, carries |-> carries, posted |-> posted,
     content |-> content]

NoContent == Leaf("", NoneS)

\* lines 85-126: the POST and the decoding of the answer
Exchange(url, fields, answer) ==
    LET post == <<[url |-> url, fields |-> fields]>>
    IN  CASE answer.conn = "timeout" ->
                \* raise Timeout(... self.timeout): no name self in a classmethod
                Outcome("NameError", NoneS, FALSE, post, NoContent)
          [] answer.conn = "refused" ->
                Outcome("ConnectionError", NoneS, FALSE, post, NoContent)
          [] answer.conn = "ok" /\ RaisesForStatus(answer.status) ->
                Outcome(ExceptionFor(answer.status),
                        IF answer.body.parsed THEN answer.body.root.text ELSE <<>>,
                        TRUE, post, NoContent)
          [] answer.conn = "ok" /\ ~RaisesForStatus(answer.status)
               /\ ~answer.body.parsed ->
                Outcome("UnexpectedResponse", NoneS, TRUE, post, NoContent)
          [] answer.conn = "ok" /\ ~RaisesForStatus(answer.status)
               /\ answer.body.parsed /\ answer.body.root.tag = "error" ->
                Outcome("UnexpectedResponse", answer.body.root.text, FALSE, post,
                        NoContent)
          [] OTHER ->
                Outcome("none", NoneS, FALSE, post, answer.body.root)

\* a URL: the stripped path and the /name/value segments after it
Segment(name, value) == [name |-> name, value |-> value]

\* CheddarGetter.request(path, code, item_code, product_code,
\* pass_product_code, **kwargs), with the class's product code and the
\* answer the POST gets
Request(path, code, item_code, product_code, pass_product_code, kwargs, class_product_code, answer) ==
    LET add_to_url == ~IsCreationPath(path)
        is_id == code # NoneS /\ IsUuid(code)
        refused == code # NoneS /\ is_id /\ ~add_to_url
        codeSegs == IF code # NoneS /\ add_to_url
                    THEN <<Segment(IF is_id THEN "id" ELSE "code", code)>>
                    ELSE <<>>
        kwargs1 == IF code # NoneS /\ ~is_id /\ ~add_to_url
                   THEN Put(kwargs, "code", StrV(code))
                   ELSE kwargs
        itemSegs == IF item_code # NoneS
                    THEN <<Segment("itemCode", item_code)>>
                    ELSE <<>>
        fields == Mangle(kwargs1)
        pc == IF product_code = NoneS THEN class_product_code ELSE product_code
        pcSegs == IF pass_product_code THEN <<Segment("productCode", pc)>> ELSE <<>>
        url == [path |-> StripSlashes(path),
                segs |-> codeSegs \o itemSegs \o pcSegs]
    IN  IF refused THEN Outcome("ValueError", NoneS, FALSE, <<>>, NoContent)
        ELSE IF pass_product_code /\ pc \in {NoneS, <<>>}
        THEN Outcome("AttributeError", NoneS, FALSE, <<>>, NoContent)
        ELSE Exchange(url, fields, answer)


-----------------------------------------------------------------------------
(* Reading attributes *)

Got(value) == [exc |-> "none", value |-> value]

Missing(exc) == [exc |-> exc, value |-> NoneV]

\* CheddarObject.__getattr__ (and the instance __dict__ before it)
BaseGetAttr(o, key) ==
    CASE key \in DOMAIN o.dict -> Got(o.dict[key])
      [] key \notin DOMAIN o.dict /\ key \in DictMethods ->
            Got([t |-> "method", v |-> key])
      [] key \notin DOMAIN o.dict /\ key = "id" -> Got(OfStr(o.id))
      [] key \notin DOMAIN o.dict /\ key = "code" -> Got(OfStr(o.code))
      [] key \notin DOMAIN o.dict /\ IsPrivate(key) -> Missing("KeyError")
      [] OTHER ->
            IF key \in DOMAIN o.data
            THEN IF to_underscores(key) \in DOMAIN o.data
                 THEN Got(o.data[to_underscores(key)])
                 ELSE Missing("KeyError")
            ELSE Missing("AttributeError")

\* x.code of a value read from an attribute
CodeOf(got) ==
    IF got.exc # "none" THEN Missing(got.exc)
    ELSE IF got.value.t = "obj" THEN Got(OfStr(got.value.v.code))
    ELSE Missing("AttributeError")

\* Subscription.__getattr__
SubscriptionGetAttr(o, key) ==
    IF to_underscores(key) = "plan_code"
    THEN CodeOf(BaseGetAttr(o, "plan"))
    ELSE BaseGetAttr(o, key)

\* Item.__getattr__
ItemGetAttr(o, key) ==
    IF key = "quantity" /\ HasAttr(o, "plan")
    THEN BaseGetAttr(o, "quantity_included")
    ELSE BaseGetAttr(o, key)

\* getattr(o, key) through the class of o
GetAttr(o, key) ==
    CASE o.kind = "Subscription" -> SubscriptionGetAttr(o, key)
      [] o.kind = "Item" -> ItemGetAttr(o, key)
      [] OTHER -> BaseGetAttr(o, key)

\* the string (or None) a scalar stands for when it is passed as a code
AsCode(value) == IF value.t = "str" THEN value.v ELSE NoneS

-----------------------------------------------------------------------------
(* Plan *)

\* Plan.is_free: the exception raised, or whether the charges sum to zero
\* within the tolerance
PlanIsFree(plan) ==
    LET setup == BaseGetAttr(plan, "setup_charge_amount")
        recurring == BaseGetAttr(plan, "recurring_charge_amount")
    IN  IF setup.exc # "none" THEN [exc |-> setup.exc, free |-> FALSE]
        ELSE IF recurring.exc # "none" THEN [exc |-> recurring.exc, free |-> FALSE]
        ELSE IF ~(IsNumber(setup.value) /\ IsNumber(recurring.value))
        THEN [exc |-> "TypeError", free |-> FALSE]
        ELSE LET total == ToUnits(setup.value) + ToUnits(recurring.value)
             IN  [exc |-> "none", free |-> total < Epsilon /\ total > -Epsilon]


-----------------------------------------------------------------------------
(* The endpoints the resource kinds post to *)

CustomersNew == <<"/", "c", "u", "s", "t", "o", "m", "e", "r", "s", "/", "n", "e", "w", "/">>

CustomersEdit == <<"/", "c", "u", "s", "t", "o", "m", "e", "r", "s", "/", "e", "d", "i", "t", "/">>

CustomersDelete == <<"/", "c", "u", "s", "t", "o", "m", "e", "r", "s", "/", "d", "e", "l", "e", "t", "e", "/">>

CustomersCancel == <<"/", "c", "u", "s", "t", "o", "m", "e", "r", "s", "/", "c", "a", "n", "c", "e", "l", "/">>

CustomersEditSubscription ==
    <<"/", "c", "u", "s", "t", "o", "m", "e", "r", "s", "/", "e", "d", "i", "t", "-", "s", "u", "b", "s", "c", "r", "i", "p", "t", "i", "o", "n", "/">>

CustomersSetItemQuantity ==
    <<"/", "c", "u", "s", "t", "o", "m", "e", "r", "s", "/", "s", "e", "t", "-", "i", "t", "e", "m", "-", "q", "u", "a", "n", "t", "i", "t", "y", "/">>

CustomersAddItemQuantity ==
    <<"/", "c", "u", "s", "t", "o", "m", "e", "r", "s", "/", "a", "d", "d", "-", "i", "t", "e", "m", "-", "q", "u", "a", "n", "t", "i", "t", "y", "/">>

PlansDelete == <<"/", "p", "l", "a", "n", "s", "/", "d", "e", "l", "e", "t", "e", "/">>

\* CheddarGetter.product_code, set once for the process
ProductCode == <<"P", "R", "O", "D">>

\* request() as the resource kinds call it: product code from the class
Call(path, code, item_code, kwargs, answer) ==
    Request(path, code, item_code, NoneS, TRUE, kwargs, ProductCode, answer)

\* xml.getiterator(tag): the first element with the tag, in document order
RECURSIVE FirstWithTag(_, _)
RECURSIVE FirstAmong(_, _, _)
FirstWithTag(xml, tag) ==
    IF xml.tag = tag THEN [found |-> TRUE, xml |-> xml]
    ELSE FirstAmong(xml.kids, 1, tag)

FirstAmong(kids, i, tag) ==
    IF i > Len(kids) THEN [found |-> FALSE, xml |-> NoContent]
    ELSE LET here == FirstWithTag(kids[i], tag)
         IN  IF here.found THEN here ELSE FirstAmong(kids, i + 1, tag)

\* the reload after a request: the object loaded from the element, with the
\* POSTs of the request
Reloaded(r, posted) == Result(r.obj, r.exc, ObjV(r.obj), posted)

Reload(o, xml, posted) == Reloaded(LoadXml(o, xml, TRUE), posted)

-----------------------------------------------------------------------------
(* CheddarObject.save, CheddarObject.delete *)

\* raise NotImplemented: NotImplemented is no exception, and raising it is
\* a TypeError
BaseSave(o) == Raise(o, "TypeError")

BaseDelete(o) == Raise(o, "TypeError")

\* Plan.delete, Customer.delete: the request, UnexpectedResponse swallowed
DeleteBy(o, path, code, answer) ==
    LET out == Call(path, code, NoneS, EmptyMap, answer)
    IN  Result(o, IF out.exc = "UnexpectedResponse" THEN "none" ELSE out.exc,
               NoneV, out.posted)

PlanDelete(o, answer) == DeleteBy(o, PlansDelete, o.code, answer)

CustomerDelete(o, answer) == DeleteBy(o, CustomersDelete, o.code, answer)

-----------------------------------------------------------------------------
(* Item *)

\* Item.validate: the exception raised, or the value returned
ItemValidate(o) ==
    IF ~HasAttr(o, "customer") THEN [exc |-> "ValidationError", ok |-> FALSE]
    ELSE LET kwargs == BuildKwargs(o)
         IN  IF DOMAIN kwargs = {} THEN [exc |-> "none", ok |-> FALSE]
             ELSE IF "quantity" \notin DOMAIN kwargs \/ Cardinality(DOMAIN kwargs) > 1
             THEN [exc |-> "ValidationError", ok |-> FALSE]
             ELSE [exc |-> "none", ok |-> TRUE]

\* the request of Item.save and Item.add, and the reload from its answer
ItemPush(o, path, quantity, answer) ==
    LET customer_code == CodeOf(GetAttr(o, "customer"))
    IN  IF customer_code.exc # "none" THEN Raise(o, customer_code.exc)
        ELSE IF quantity.exc # "none" THEN Raise(o, quantity.exc)
        ELSE LET out == Call(path, AsCode(customer_code.value), o.code,
                             Put(EmptyMap, "quantity", quantity.value), answer)
             IN  IF out.exc # "none" THEN Result(o, out.exc, NoneV, out.posted)
                 ELSE Reload(o, out.content, out.posted)

\* Item.save
ItemSave(o, answer) ==
    LET valid == ItemValidate(o)
    IN  IF valid.exc # "none" THEN Raise(o, valid.exc)
        ELSE IF ~valid.ok THEN Result(o, "none", ObjV(o), <<>>)
        ELSE ItemPush(o, CustomersSetItemQuantity, GetAttr(o, "quantity"), answer)

\* Item.add(quantity)
ItemAdd(o, quantity, year, answer) ==
    LET current == GetAttr(o, "quantity")
    IN  IF current.exc # "none" THEN Raise(o, current.exc)
        ELSE IF ~IsNumber(current.value) THEN Raise(o, "TypeError")
        ELSE LET set == SetAttr(o, "quantity", PyAdd(current.value, quantity), year)
                 valid == ItemValidate(set.obj)
             IN  IF valid.exc # "none" THEN Raise(set.obj, valid.exc)
                 ELSE IF ~valid.ok THEN Result(set.obj, "none", ObjV(set.obj), <<>>)
                 ELSE ItemPush(set.obj, CustomersAddItemQuantity, Got(quantity), answer)


-----------------------------------------------------------------------------
(* Subscription *)

\* the payment fields a subscription to a plan that is not free needs
RequiredCardFields == <<"cc_first_name", "cc_last_name", "cc_number",
                        "cc_expiration", "cc_card_code", "cc_zip">>

\* the loop of Subscription.validate over the required fields: False at the
\* first one that is missing or empty
CardFieldsPresent(o) ==
    \A i \in 1..Len(RequiredCardFields) :
        LET got == GetAttr(o, RequiredCardFields[i])
        IN  got.exc = "none" /\ Truthy(got.value)

\* Subscription.validate: the exception raised, or the value returned
SubscriptionValidate(o) ==
    LET plan == BaseGetAttr(o, "plan")
    IN  IF plan.exc # "none" \/ plan.value.t # "obj"
        THEN [exc |-> "AttributeError", ok |-> FALSE]
        ELSE LET free == IF is_new(plan.value.v) THEN [exc |-> "none", free |-> FALSE]
                         ELSE PlanIsFree(plan.value.v)
             IN  IF free.exc # "none" THEN [exc |-> free.exc, ok |-> FALSE]
                 ELSE IF free.free THEN [exc |-> "none", ok |-> TRUE]
                 ELSE [exc |-> "none", ok |-> CardFieldsPresent(o)]

\* what saving the owning customer does, seen from the subscription: the
\* exception it raises and the POSTs it issues
Delegated(exc, posted) == [exc |-> exc, posted |-> posted]

\* Subscription.save; `delegated` is the outcome of self.customer.save()
SubscriptionSave(o, delegated, answer) ==
    LET customer == GetAttr(o, "customer")
    IN  IF is_new(o)
        THEN IF customer.exc # "none" THEN Raise(o, customer.exc)
             ELSE IF customer.value.t # "obj" THEN Raise(o, "AttributeError")
             ELSE Result(o, delegated.exc, ObjV(o), delegated.posted)
        ELSE LET kwargs == BuildKwargs(o)
                 customer_code == CodeOf(customer)
             IN  IF DOMAIN kwargs = {} THEN Result(o, "none", ObjV(o), <<>>)
                 ELSE IF customer_code.exc # "none" THEN Raise(o, customer_code.exc)
                 ELSE LET out == Call(CustomersEditSubscription,
                                      AsCode(customer_code.value), NoneS, kwargs, answer)
                          first == FirstWithTag(out.content, "subscription")
                      IN  IF out.exc # "none" THEN Result(o, out.exc, NoneV, out.posted)
                          ELSE IF first.found THEN Reload(o, first.xml, out.posted)
                          ELSE Result(o, "none", ObjV(o), out.posted)

\* Subscription.delete
SubscriptionDelete(o, answer) ==
    LET customer_code == CodeOf(GetAttr(o, "customer"))
    IN  IF customer_code.exc # "none" THEN Raise(o, customer_code.exc)
        ELSE DeleteBy(o, CustomersCancel, AsCode(customer_code.value), answer)

-----------------------------------------------------------------------------
(* Customer *)

RequiredCustomerFields == <<"first_name", "last_name", "email">>

\* Customer.validate: the exception raised, or the value returned; what the
\* subscription's validate returns is dropped
CustomerValidate(o) ==
    LET sub == SubscriptionValidate(o.dict["subscription"].v)
    IN  IF o.code \in {NoneS, <<>>} THEN [exc |-> "ValidationError", ok |-> FALSE]
        ELSE IF sub.exc # "none" THEN [exc |-> sub.exc, ok |-> FALSE]
        ELSE IF \E i \in 1..Len(RequiredCustomerFields) :
                    ~Contains(o, RequiredCustomerFields[i])
        THEN [exc |-> "ValidationError", ok |-> FALSE]
        ELSE [exc |-> "none", ok |-> TRUE]

\* 'subscription[{0}]'.format(key)
SubscriptionKey(key) ==
    CASE key = "plan_code" -> "subscription[plan_code]"
      [] key = "coupon_code" -> "subscription[coupon_code]"
      [] key = "cc_first_name" -> "subscription[cc_first_name]"
      [] key = "cc_last_name" -> "subscription[cc_last_name]"
      [] key = "cc_number" -> "subscription[cc_number]"
      [] key = "cc_expiration" -> "subscription[cc_expiration]"
      [] key = "cc_card_code" -> "subscription[cc_card_code]"
      [] key = "cc_zip" -> "subscription[cc_zip]"
      [] key = "cc_address" -> "subscription[cc_address]"

\* 'metaData[{0}]'.format(name), for the names of the model
MetaKey(name) ==
    CASE name = StrV(<<"a">>) -> "metaData[a]"
      [] name = StrV(<<"b">>) -> "metaData[b]"
      [] name = StrV(<<"a", "_", "b">>) -> "metaData[a_b]"
      [] OTHER -> "metaData[]"

\* the loop over self.meta_data in Customer.save
RECURSIVE WithMetaData(_, _, _)
WithMetaData(kwargs, list, i) ==
    IF i > Len(list) THEN kwargs
    ELSE WithMetaData(Put(kwargs, MetaKey(list[i].data["name"]), list[i].data["value"]),
                      list, i + 1)

\* Metadatum(name=name, value=value)
NewMetadatum(name, value) ==
    BaseSetAttr(BaseSetAttr(BareObject("Metadatum"), "name", name).obj,
                "value", value).obj

\* the loop of Customer.get_meta from the i-th datum on: the value of the
\* first datum with the name, else the default
RECURSIVE MetaFrom(_, _, _, _)
MetaFrom(list, i, name, default) ==
    IF i > Len(list) THEN default
    ELSE IF PyEq(BaseGetAttr(list[i], "name").value, name)
    THEN BaseGetAttr(list[i], "value").value
    ELSE MetaFrom(list, i + 1, name, default)

\* Customer.get_meta(name, default)
GetMeta(o, name, default) == MetaFrom(o.dict["meta_data"].v, 1, name, default)

\* the loop of Customer.set_meta from the i-th datum on: the value of the
\* first datum with the name is set, else a new datum is appended
RECURSIVE MetaSet(_, _, _, _)
MetaSet(list, i, name, value) ==
    IF i > Len(list) THEN Append(list, NewMetadatum(name, value))
    ELSE IF PyEq(BaseGetAttr(list[i], "name").value, name)
    THEN [list EXCEPT ![i] = BaseSetAttr(@, "value", value).obj]
    ELSE MetaSet(list, i + 1, name, value)

\* Customer.set_meta(name, value): an empty list is replaced by a new one;
\* a list that is not empty is changed in place, and with it the
\* _clean_meta_data of the loader, which is the same list
SetMeta(o, name, value) ==
    LET old == o.dict["meta_data"]
        new == ListV(MetaSet(old.v, 1, name, value))
    IN  IF old.v = <<>> THEN BaseSetAttr(o, "meta_data", new)
        ELSE IF "_clean_meta_data" \in DOMAIN o.dict /\ o.dict["_clean_meta_data"] = old
        THEN Ok([o EXCEPT !.dict = Put(Put(@, "meta_data", new), "_clean_meta_data", new)])
        ELSE Ok([o EXCEPT !.dict = Put(@, "meta_data", new)])

\* the card fields sent with a new customer, in the order of cc_info
CardFields == <<"cc_first_name", "cc_last_name", "cc_number", "cc_expiration",
                "cc_card_code", "cc_zip", "cc_address">>

\* the keyword arguments of the create request: the plan code, the coupon
\* code and the card fields the subscription holds
NewCustomerKwargs(kwargs, sub) ==
    LET planned == Put(kwargs, SubscriptionKey("plan_code"),
                       OfStr(sub.dict["plan"].v.code))
        couponed == IF HasAttr(sub, "coupon_code")
                    THEN Put(planned, SubscriptionKey("coupon_code"),
                             GetAttr(sub, "coupon_code").value)
                    ELSE planned
        held == {CardFields[i] : i \in {j \in 1..Len(CardFields) :
                                          Contains(sub, CardFields[j])}}
    IN  [k \in DOMAIN couponed \cup {SubscriptionKey(c) : c \in held} |->
            IF k \in DOMAIN couponed THEN couponed[k]
            ELSE LET c == CHOOSE c \in held : SubscriptionKey(c) = k
                 IN  GetAttr(sub, c).value]

\* the request of Customer.save and the reload from the first customer
\* element of its answer
CustomerPush(o, path, kwargs, answer) ==
    LET out == Call(path, o.code, NoneS, kwargs, answer)
        first == FirstWithTag(out.content, "customer")
    IN  IF out.exc # "none" THEN Result(o, out.exc, NoneV, out.posted)
        ELSE IF first.found THEN Reload(o, first.xml, out.posted)
        ELSE Result(o, "none", ObjV(o), out.posted)

CustomerSaveWithoutValidation(o, answer) ==
    LET sub == o.dict["subscription"].v
        kwargs == WithMetaData(BuildKwargs(o), o.dict["meta_data"].v, 1)
    IN  IF is_new(o)
        THEN CustomerPush(o, CustomersNew, NewCustomerKwargs(kwargs, sub), answer)
        ELSE IF ~IsClean(sub) THEN Raise(o, "ValueError")
        ELSE CustomerPush(o, CustomersEdit, kwargs, answer)

\* Customer.save
CustomerSave(o, answer) ==
    LET valid == CustomerValidate(o)
        sub == o.dict["subscription"].v
        kwargs == WithMetaData(BuildKwargs(o), o.dict["meta_data"].v, 1)
    IN  IF valid.exc # "none" THEN Raise(o, valid.exc)
        ELSE IF is_new(o)
        THEN CustomerPush(o, CustomersNew, NewCustomerKwargs(kwargs, sub), answer)
        \* for key, val in sub_kwargs: unpacking a key, a string of more
        \* than two characters, raises ValueError
        ELSE IF ~IsClean(sub) THEN Raise(o, "ValueError")
        ELSE CustomerPush(o, CustomersEdit, kwargs, answer)


-----------------------------------------------------------------------------
(* The plan lookup (TopCheddarObject.fetch, TopCheddarObject.get) and the  *)
(* plan branch of Subscription.__setattr__                                 *)

\* '/{0}s/{1}/'.format(cls._obj, method), for Plan and the method 'get'
PlansFetch == <<"/", "p", "l", "a", "n", "s", "/", "g", "e", "t", "/">>

\* xml.getiterator(tag=tag): every element with the tag, in document order
RECURSIVE AllWithTag(_, _)
RECURSIVE AllAmong(_, _, _)
AllWithTag(xml, tag) ==
    (IF xml.tag = tag THEN <<xml>> ELSE <<>>) \o AllAmong(xml.kids, 1, tag)

AllAmong(kids, i, tag) ==
    IF i > Len(kids) THEN <<>>
    ELSE AllWithTag(kids[i], tag) \o AllAmong(kids, i + 1, tag)

\* str(code) of an object that defines no __str__
ObjectRepr == <<"<", "P", "l", "a", "n", ">">>

\* the code request() gets for a value: None stays None, anything else
\* goes through str()
CodeArgument(value) ==
    CASE value.t = "none" -> NoneS
      [] value.t = "str" -> value.v
      [] OTHER -> ObjectRepr

\* what a lookup gives: the exception it raises, the plan (or None) it
\* returns and the request it posted
Looked(exc, plan, posted) == [exc |-> exc, plan |-> plan, posted |-> posted]

\* the list comprehension of fetch, cls.from_xml of every plan element, and
\* the choice of get: None for an empty list, else the first plan
FirstPlan(found, posted) ==
    IF \E i \in DOMAIN found : FromXml("Plan", found[i], NoParent).exc # "none"
    THEN Looked("ValueError", NoneV, posted)
    ELSE IF found = <<>> THEN Looked("none", NoneV, posted)
    ELSE Looked("none", ObjV(FromXml("Plan", found[1], NoParent).obj), posted)

\* fetch after the request: NotFound is an empty list, any other exception
\* is passed on
PlanGot(out) ==
    IF out.exc = "NotFound" THEN Looked("none", NoneV, out.posted)
    ELSE IF out.exc # "none" THEN Looked(out.exc, NoneV, out.posted)
    ELSE FirstPlan(AllWithTag(out.content, "plan"), out.posted)

\* Plan.get(value)
PlanGet(value, answer) ==
    PlanGot(Call(PlansFetch, CodeArgument(value), NoneS, EmptyMap, answer))

\* a result with the requests posted before it
Prepend(posted, r) == Result(r.obj, r.exc, r.ret, posted \o r.sent)

RECURSIVE SetPlan(_, _, _, _)

AfterLookupStoringAnything(o, got, answers, depth) ==
    IF got.exc # "none" THEN Result(o, got.exc, NoneV, got.posted)
    ELSE Result([o EXCEPT !.dict = Put(@, "plan", got.plan)], "none", NoneV,
                got.posted)

\* self.plan = <what Plan.get returned>: a Plan is stored, None is no Plan
\* and goes through the plan branch again
AfterLookup(o, got, answers, depth) ==
    IF got.exc # "none" THEN Result(o, got.exc, NoneV, got.posted)
    ELSE IF got.plan.t = "obj"
    THEN Result(BaseSetAttr(o, "plan", got.plan).obj, "none", NoneV, got.posted)
    ELSE Prepend(got.posted, SetPlan(o, NoneV, answers, depth + 1))

\* Subscription.__setattr__, the plan branch, entered for the depth-th
\* time; answers[i] is what the i-th lookup is answered
SetPlan(o, value, answers, depth) ==
    IF depth > RecursionLimit THEN Raise(o, "RuntimeError")
    ELSE AfterLookup(o, PlanGet(value, answers[depth]), answers, depth)

\* Subscription.__setattr__
SubscriptionAssign(o, key, value, year, answers) ==
    IF to_underscores(key) \in {"cc_number", "cc_expiration"}
    THEN SubscriptionSetAttr(o, key, value, year)
    ELSE IF \/ to_underscores(key) = "plan_code"
            \/ (key = "plan" /\ ~(value.t = "obj" /\ value.v.kind = "Plan"))
    THEN SetPlan(o, value, answers, 1)
    ELSE BaseSetAttr(o, key, value)

-----------------------------------------------------------------------------
(* The inputs of the model: what callers pass and what the server answers *)

\* the identifiers the server hands out
IdOf(i) == <<"i", "d", DigitChar(i)>>

Ids == {IdOf(i) : i \in 1..NumIds}

IdsOrNone == Ids \cup {NoneS}

\* the text of a quantity
Numeral(n) == <<DigitChar(n)>>

CodeC1 == <<"c", "1">>

TextA == <<"a">>

TextB == <<"b">>

\* the tag of the element that describes an object of the class
TagOf(kind) ==
    CASE kind = "Plan" -> "plan"
      [] kind = "Promotion" -> "promotion"
      [] kind = "Customer" -> "customer"
      [] kind = "Subscription" -> "subscription"
      [] kind = "Item" -> "item"
      [] kind = "Invoice" -> "invoice"
      [] kind = "Charge" -> "charge"
      [] kind = "Transaction" -> "transaction"
      [] kind = "Coupon" -> "coupon"
      [] kind = "Incentive" -> "incentive"
      [] kind = "Metadatum" -> "metaDatum"
      [] OTHER -> "cheddarobject"

PlainXmls(kind) ==
    {Node(TagOf(kind), id, code, <<Leaf("name", TextA)>>) :
        id \in IdsOrNone, code \in {NoneS, CodeC1}}

FreeAmount == <<"0", ".", "0", "0">>

PaidAmount == <<"1", ".", "0", "0">>

PlanXmls ==
    {Node("plan", id, CodeC1,
          <<Leaf("setupChargeAmount", s), Leaf("recurringChargeAmount", FreeAmount)>>) :
        id \in IdsOrNone, s \in {FreeAmount, PaidAmount}}

\* the plans the server nests in a subscription
NestedPlanXmls == {x \in PlanXmls : x.id = IdOf(1)}

ItemXmls ==
    {Node("item", id, CodeC1, <<Leaf("quantity", Numeral(q))>>) :
        id \in IdsOrNone, q \in 0..MaxQuantity}

ZipCode == <<"1", "2", "3", "4", "5">>

\* the subscriptions the server nests in a customer: with a free plan and
\* with a paid one
NestedSubscriptionXmls ==
    {Node("subscription", IdOf(1), NoneS, <<Node("plans", NoneS, NoneS, <<p>>)>>) :
        p \in NestedPlanXmls}

SubscriptionXmls ==
    {Node("subscription", id, NoneS, kids) :
        id \in IdsOrNone, kids \in {<<>>, <<Leaf("ccZip", ZipCode)>>}}
      \cup {x \in NestedSubscriptionXmls : x.kids[1].kids[1].kids[1].text = FreeAmount}

FullName == <<Leaf("firstName", TextA), Leaf("lastName", TextA), Leaf("email", TextA)>>

\* the customers of the server's answers
ResponseCustomers ==
    {Node("customer", IdOf(i), CodeC1,
          FullName \o <<Node("subscriptions", NoneS, NoneS, <<x>>)>>) :
        i \in 1..NumIds, x \in NestedSubscriptionXmls}

CustomerXmls ==
    ResponseCustomers
      \cup {Node("customer", id, CodeC1, <<Leaf("firstName", TextB)>>) : id \in IdsOrNone}

\* the elements a caller may load into an object of the class
XmlsFor(kind) ==
    CASE kind = "Plan" -> PlanXmls
      [] kind = "Item" -> ItemXmls
      [] kind = "Subscription" -> SubscriptionXmls
      [] kind = "Customer" -> CustomerXmls
      [] OTHER -> PlainXmls(kind)

\* the root elements of the server's answers: a list of customers
ResponseRoots == {Node("customers", NoneS, NoneS, <<c>>) : c \in ResponseCustomers}
      \cup {Node("customers", NoneS, NoneS, <<>>)}

ErrorRoot == Leaf("error", <<"o", "o", "p", "s">>)

\* what the network and the server may do with a POST of a resource kind
RecordAnswers ==
    {Answer("timeout", 0, NotXml), Answer("refused", 0, NotXml),
     Answer("ok", 404, XmlBody(ErrorRoot)), Answer("ok", 200, NotXml)}
      \cup {Answer("ok", 200, XmlBody(r)) : r \in ResponseRoots}


\* the calendar years an assignment may happen in
Years == {2012, 2095}

CodeC2 == <<"c", "2">>

CardNumber == <<"4", "1", "1", "1", " ", "1">>

Expiration == <<"0", "3", "1", "2">>

\* the same date written MM/YY and MM/YYYY
ExpirationForms ==
    {Expiration, <<"0", "3", "/", "1", "2">>, <<"0", "3", "/", "2", "0", "1", "2">>}

\* an assignment: the key, the value and the calendar year it happens in
Assignment(key, value) == [key |-> key, value |-> value, year |-> 2012]

\* the assignments a caller makes on an object of the class
AssignmentsFor(kind) ==
    {Assignment("code", StrV(CodeC1)), Assignment("id", StrV(IdOf(1)))}
      \cup
    CASE kind = "Item" ->
            {Assignment("quantity", IntV(q)) : q \in 0..MaxQuantity}
              \cup {Assignment("name", StrV(TextA))}
      [] kind = "Subscription" ->
            {Assignment("cc_number", StrV(CardNumber)),
             Assignment("ccNumber", StrV(StripNonDigits(CardNumber))),
             Assignment("cc_zip", StrV(ZipCode))}
              \cup {[key |-> "cc_expiration", value |-> StrV(e), year |-> y] :
                       e \in ExpirationForms, y \in Years}
      [] kind = "Customer" ->
            {Assignment("code", StrV(<<>>)), Assignment("first_name", StrV(TextA)),
             Assignment("email", StrV(TextA))}
      [] OTHER ->
            {Assignment("code", StrV(CodeC2)), Assignment("name", StrV(TextA)),
             Assignment("name", StrV(TextB))}

\* the assignments a caller makes on the subscription of a customer
SubscriptionAssignments ==
    {Assignment("cc_number", StrV(CardNumber)), Assignment("cc_zip", StrV(ZipCode)),
     Assignment("cc_zip", StrV(<<>>))}

\* what a caller has set on a customer before the customer is observed:
\* nothing, or the last name and, on the subscription, every required card
\* field but number and zip
CardHolderFields == <<"cc_first_name", "cc_last_name", "cc_expiration", "cc_card_code">>

RECURSIVE WithFields(_, _, _, _)
WithFields(o, keys, i, value) ==
    IF i > Len(keys) THEN o
    ELSE WithFields(SetAttr(o, keys[i], value, 2012).obj, keys, i + 1, value)

WithCardHolder(customer) ==
    [WithFields(customer, <<"last_name">>, 1, StrV(TextA)) EXCEPT
        !.dict = Put(@, "subscription",
            ObjV(WithFields(customer.dict["subscription"].v, CardHolderFields, 1,
                            StrV(<<"0", "3", "/", "2", "0", "1", "2">>))))]

\* the parents an object of the class is constructed with
ParentsFor(kind) ==
    CASE kind = "Item" ->
            {NoParent, ParentOf([BareObject("Customer") EXCEPT !.code = CodeC1]),
             ParentOf(BareObject("Plan"))}
      [] kind = "Subscription" ->
            {ParentOf([BareObject("Customer") EXCEPT !.code = CodeC1])}
      [] OTHER -> {NoParent}

\* what saving the owning customer may do, seen from a new subscription
DelegatedOutcomes ==
    {Delegated("none", <<[url |-> [path |-> StripSlashes(CustomersNew), segs |-> <<>>],
                          fields |-> EmptyMap]>>),
     Delegated("ValidationError", <<>>)}

\* the paths request() is called with: a creation endpoint, an endpoint of
\* an existing object, and one without the slashes around it
PlansGet == <<"p", "l", "a", "n", "s", "/", "g", "e", "t">>

RequestPaths == {CustomersNew, CustomersEdit, PlansGet}

UuidLower ==
    <<"5", "5", "0", "e", "8", "4", "0", "0", "-", "e", "2", "9", "b", "-",
      "4", "1", "d", "4", "-", "a", "7", "1", "6", "-",
      "4", "4", "6", "6", "5", "5", "4", "4", "0", "0", "0", "0">>

UuidUpper ==
    <<"5", "5", "0", "E", "8", "4", "0", "0", "-", "E", "2", "9", "B", "-",
      "4", "1", "D", "4", "-", "A", "7", "1", "6", "-",
      "4", "4", "6", "6", "5", "5", "4", "4", "0", "0", "0", "0">>

\* the identifiers request() is called with: none, UUIDs in lower and in
\* upper case, a UUID with a newline after it, a UUID cut short, a UUID
\* with a letter that is no hex digit, and a code
Identifiers ==
    {NoneS, UuidLower, UuidUpper, UuidLower \o <<"\n">>,
     SubSeq(UuidLower, 1, UuidLength - 1),
     [UuidLower EXCEPT ![1] = "g"], CodeC1}

\* the other arguments of a call: item code, product code, whether to pass
\* it, the keyword arguments and the product code of the class
CallVariants ==
    {[item_code |-> NoneS, product_code |-> NoneS, pass |-> TRUE,
      kwargs |-> EmptyMap, class_product_code |-> ProductCode],
     [item_code |-> CodeC1, product_code |-> CodeC2, pass |-> TRUE,
      kwargs |-> Put(EmptyMap, "first_name", StrV(TextA)),
      class_product_code |-> ProductCode],
     [item_code |-> NoneS, product_code |-> NoneS, pass |-> FALSE,
      kwargs |-> Put(EmptyMap, "code", StrV(CodeC2)),
      class_product_code |-> NoneS],
     [item_code |-> NoneS, product_code |-> NoneS, pass |-> TRUE,
      kwargs |-> EmptyMap, class_product_code |-> NoneS]}

\* the status codes a server may answer with
Statuses == {100, 200, 201, 204, 299, 300, 304, 400, 401, 403, 404, 412, 422,
             500, 502, 503, 599}

PlansRoot == Node("plans", NoneS, NoneS, <<>>)

\* the bodies of the answers: no XML, an error element with and without a
\* text, and a list of plans
Bodies == {NotXml, XmlBody(ErrorRoot), XmlBody(Leaf("error", NoneS)),
           XmlBody(PlansRoot)}

\* what the network and the server may do with a POST of request()
RequestAnswers ==
    {Answer("timeout", 0, NotXml), Answer("refused", 0, NotXml)}
      \cup {Answer("ok", status, body) : status \in Statuses, body \in Bodies}

\* the plans of the server's answers to a lookup: none, one, or two
PlanLists ==
    {<<>>} \cup {<<p>> : p \in NestedPlanXmls}
      \cup {<<Node("plan", IdOf(NumIds), CodeC2, <<>>),
             Node("plan", IdOf(1), CodeC1, <<>>)>>}

\* what the network and the server may do with a lookup
PlanAnswers ==
    {Answer("refused", 0, NotXml), Answer("ok", 404, XmlBody(ErrorRoot))}
      \cup {Answer("ok", 200, XmlBody(Node("plans", NoneS, NoneS, l))) :
              l \in PlanLists}

\* the answers after which the lookup returns no plan
NoPlanAnswers ==
    {Answer("ok", 404, XmlBody(ErrorRoot)),
     Answer("ok", 200, XmlBody(Node("plans", NoneS, NoneS, <<>>)))}

\* the answers to the lookups of one assignment, in order; no lookup
\* follows one that raised or returned a plan, so the answers after it are
\* not enumerated
AnswerRuns ==
    {a \in [1..RecursionLimit -> PlanAnswers] :
        \A i \in 1..(RecursionLimit - 1) :
            a[i] \notin NoPlanAnswers => a[i + 1] = Answer("refused", 0, NotXml)}

\* a Plan of the server, as a caller holds it
ServerPlan ==
    ObjV(FromXml("Plan", Node("plan", IdOf(NumIds), CodeC2, <<>>), NoParent).obj)

\* the assignments of a plan a caller makes: a code under each of the three
\* names, the empty code, a new Plan and a Plan of the server as `plan`,
\* and a Plan as `plan_code`
PlanAssignments ==
    {Assignment(key, StrV(CodeC1)) : key \in {"plan", "plan_code", "planCode"}}
      \cup {Assignment("plan", StrV(<<>>)), Assignment("plan", ObjV(BareObject("Plan"))),
            Assignment("plan", ServerPlan), Assignment("plan_code", ServerPlan)}

\* the assignment looks a plan up
LooksUp(a) ==
    a.key # "plan" \/ ~(a.value.t = "obj" /\ a.value.v.kind = "Plan")

\* the names a caller assigns and reads on a generic record: a field in
\* snake_case and in camelCase, a field with one spelling only, and a name
\* that is also a method of a dict
FieldNames == {"first_name", "firstName", "email", "keys"}

\* the names a caller reads besides: fields never assigned
ReadNames == FieldNames \cup {"last_name", "lastName", "get"}

\* the scalar values assigned
FieldValues == {StrV(TextA), StrV(TextB), IntV(0), NoneV}

\* the names of the metadata a caller sets: one without and one with an
\* underscore
MetaNames == {StrV(<<"a">>), StrV(<<"a", "_", "b">>)}

\* the values set: a text, and the empty text that asks for deletion
MetaValues == {StrV(TextA), StrV(<<>>)}

\* the customers a caller starts from: new ones, and customers of the
\* server with no metadata and with one datum
MetaCustomers ==
    {CustomerInit, WithCardHolder(CustomerInit)}
      \cup {FromXml("Customer",
                    Node("customer", IdOf(1), CodeC1,
                         FullName \o <<Node("subscriptions", NoneS, NoneS, <<x>>)>> \o m),
                    NoParent).obj :
              x \in NestedSubscriptionXmls,
              m \in {<<>>, <<Node("metaData", NoneS, NoneS,
                              <<Node("metaDatum", IdOf(1), NoneS,
                                     <<Leaf("name", <<"a">>), Leaf("value", TextB)>>)>>)>>}}

-----------------------------------------------------------------------------
(* The state machine *)

\* the class CheddarGetter itself, when requests are made directly
Transport == [kind |-> "CheddarGetter"]

\* what is remembered of a direct call of request(): its arguments, the
\* answer the POST got and what request() did
Called(path, code, kwargs, answer, out) ==
    [path |-> path, code |-> code, kwargs |-> kwargs, answer |-> answer, out |-> out]

NoCall == Called(<<>>, NoneS, EmptyMap, Answer("none", 0, NotXml),
                 Outcome("none", NoneS, FALSE, <<>>, NoContent))

Did(op, key, value, r) ==
    [op |-> op, key |-> key, value |-> value, exc |-> r.exc,
     ret |-> IF r.ret.t = "obj" THEN "self" ELSE r.ret.t, call |-> NoCall]

Init ==
    /\ \/ \E kind \in Kinds : \E parent \in ParentsFor(kind) :
             \/ /\ obj = Construct(kind, parent)
                /\ phase = "new"
             \/ /\ kind = "Customer"
                /\ obj = WithCardHolder(Construct(kind, parent))
                /\ phase = "new"
             \/ \E xml \in XmlsFor(kind) :
                   /\ FromXml(kind, xml, parent).exc = "none"
                   /\ obj = FromXml(kind, xml, parent).obj
                   /\ phase = "from_xml"
       \/ /\ obj = Transport
          /\ phase = "new"
    /\ last = [op |-> "init", key |-> "", value |-> NoneV, exc |-> "none",
               ret |-> "none", call |-> NoCall]
    /\ sent = <<>>

IsRecord == obj.kind \in Kinds

\* the phase after an operation: "from_xml+1" after the first assignment
\* that follows from_xml, "other" after anything else that returned
PhaseAfter(op, exc) ==
    IF exc # "none" /\ op = "setattr" THEN phase
    ELSE IF op = "setattr" /\ phase = "from_xml" THEN "from_xml+1"
    ELSE "other"

Apply(op, key, value, r) ==
    /\ obj' = r.obj
    /\ phase' = PhaseAfter(op, r.exc)
    /\ last' = Did(op, key, value, r)
    /\ sent' = r.sent

\* obj.key = value
Assign ==
    /\ IsRecord
    /\ \E a \in AssignmentsFor(obj.kind) :
          Apply("setattr", a.key, a.value, SetAttr(obj, a.key, a.value, a.year))

\* obj.subscription.key = value, on a customer
AssignSubscription ==
    /\ IsRecord /\ obj.kind = "Customer"
    /\ \E a \in SubscriptionAssignments :
          LET r == SetAttr(obj.dict["subscription"].v, a.key, a.value, a.year)
          IN  Apply("setattr_subscription", a.key, a.value,
                    Result([obj EXCEPT !.dict = Put(@, "subscription", ObjV(r.obj))],
                           r.exc, NoneV, <<>>))

\* item.customer = customer, as Customer.get_item does
AttachCustomer ==
    /\ IsRecord /\ obj.kind = "Item"
    /\ Apply("attach", "customer", NoneV,
             SetAttr(obj, "customer",
                     ParentOf([BareObject("Customer") EXCEPT !.code = CodeC1]), 2012))

\* obj._load_data_from_xml(xml, clean)
Load ==
    /\ IsRecord
    /\ \E xml \in XmlsFor(obj.kind) :
       \E clean \in IF obj.kind \in {"Customer", "Subscription"} THEN {TRUE} ELSE BOOLEAN :
          LET r == LoadXml(obj, xml, clean)
          IN  Apply(IF clean THEN "load_clean" ELSE "load_dirty", "", NoneV,
                    Result(r.obj, r.exc, NoneV, <<>>))

\* obj.validate(), on a customer or an item
Validate ==
    /\ IsRecord /\ obj.kind \in {"Customer", "Item"}
    /\ LET v == IF obj.kind = "Customer" THEN CustomerValidate(obj)
                ELSE ItemValidate(obj)
       IN  Apply("validate", "", NoneV,
                 Result(obj, v.exc,
                        IF v.exc # "none" THEN NoneV
                        ELSE [t |-> IF v.ok THEN "True" ELSE "False", v |-> 0],
                        <<>>))

\* save() of the object's class
SaveOf(o, delegated, answer) ==
    CASE o.kind = "Customer" -> CustomerSave(o, answer)
      [] o.kind = "Subscription" -> SubscriptionSave(o, delegated, answer)
      [] o.kind = "Item" -> ItemSave(o, answer)
      [] OTHER -> BaseSave(o)

\* delete() of the object's class
DeleteOf(o, answer) ==
    CASE o.kind = "Customer" -> CustomerDelete(o, answer)
      [] o.kind = "Subscription" -> SubscriptionDelete(o, answer)
      [] o.kind = "Plan" -> PlanDelete(o, answer)
      [] OTHER -> BaseDelete(o)

\* the answers to enumerate for an operation: the answer is consulted only
\* when the operation issues a POST
AnswersFor(probe) ==
    IF probe.sent = <<>> THEN {Answer("refused", 0, NotXml)} ELSE RecordAnswers

\* obj.save()
Save ==
    /\ IsRecord
    /\ \E answer \in AnswersFor(SaveOf(obj, Delegated("none", <<>>),
                                       Answer("refused", 0, NotXml))) :
       \E delegated \in IF obj.kind = "Subscription" /\ is_new(obj)
                        THEN DelegatedOutcomes
                        ELSE {Delegated("none", <<>>)} :
          Apply("save", "", NoneV, SaveOf(obj, delegated, answer))

\* obj.delete()
Delete ==
    /\ IsRecord
    /\ \E answer \in AnswersFor(DeleteOf(obj, Answer("refused", 0, NotXml))) :
          Apply("delete", "", NoneV, DeleteOf(obj, answer))

\* item.add(quantity)
Add ==
    /\ IsRecord /\ obj.kind = "Item"
    /\ \E q \in 1..MaxQuantity :
       \E answer \in AnswersFor(ItemAdd(obj, IntV(q), 2012, Answer("refused", 0, NotXml))) :
          /\ LET current == GetAttr(obj, "quantity")
             IN  current.exc = "none" /\ current.value.t = "int"
                   => current.value.v + q <= MaxQuantity
          /\ Apply("add", "quantity", IntV(q), ItemAdd(obj, IntV(q), 2012, answer))

\* CheddarGetter.request(path, code, item_code, product_code,
\* pass_product_code, **kwargs), called directly
Requested(path, code, v, answer, out) ==
    /\ obj' = obj
    /\ phase' = "other"
    /\ last' = [op |-> "request", key |-> "", value |-> NoneV, exc |-> out.exc,
                ret |-> IF out.exc = "none" THEN "element" ELSE "none",
                call |-> Called(path, code, v.kwargs, answer, out)]
    /\ sent' = out.posted

\* request() keeps nothing between two calls, so every call is made from
\* the state the class starts in
DoRequest ==
    /\ ~IsRecord /\ last.op = "init"
    /\ \E path \in RequestPaths : \E code \in Identifiers :
       \E v \in CallVariants : \E answer \in RequestAnswers :
          Requested(path, code, v, answer,
                    Request(path, code, v.item_code, v.product_code, v.pass,
                            v.kwargs, v.class_product_code, answer))

Next ==
    \/ Assign
    \/ AssignSubscription
    \/ AttachCustomer
    \/ Load
    \/ Validate
    \/ Save
    \/ Delete
    \/ Add
    \/ DoRequest

Spec == Init /\ [][Next]_vars

-----------------------------------------------------------------------------
(* Assignments of a plan to a subscription *)

\* subscription.plan = value, subscription.plan_code = value
AssignPlan ==
    /\ IsRecord /\ obj.kind = "Subscription"
    /\ \E a \in PlanAssignments :
       \E answers \in IF LooksUp(a) THEN AnswerRuns
                      ELSE {[i \in 1..RecursionLimit |-> Answer("refused", 0, NotXml)]} :
          Apply("setattr_plan", a.key, a.value,
                SubscriptionAssign(obj, a.key, a.value, a.year, answers))

InitPlan == Init /\ IsRecord /\ obj.kind = "Subscription"

NextPlan ==
    \/ AssignPlan
    \/ Load

SpecPlan == InitPlan /\ [][NextPlan]_vars

-----------------------------------------------------------------------------
(* Assigning and reading the fields of a generic record *)

\* the classes that inherit __setattr__ and __getattr__ as they are
GenericKinds == Kinds \ {"Subscription", "Item"}

\* obj.name = value
AssignField ==
    /\ IsRecord
    /\ \E name \in FieldNames : \E value \in FieldValues :
          Apply("setattr", name, value, BaseSetAttr(obj, name, value))

\* obj.name: the value read, or the exception raised, is what `last` keeps
Read ==
    /\ IsRecord
    /\ \E name \in ReadNames :
          Apply("getattr", name, BaseGetAttr(obj, name).value,
                Result(obj, BaseGetAttr(obj, name).exc, BaseGetAttr(obj, name).value,
                       <<>>))

InitAttr == Init /\ IsRecord /\ obj.kind \in GenericKinds

NextAttr ==
    \/ AssignField
    \/ Read

SpecAttr == InitAttr /\ [][NextAttr]_vars

-----------------------------------------------------------------------------
(* The metadata of a customer *)

\* the arguments of a call, and for get_meta its result, as `last` keeps them
MetaCall(name, value, result) ==
    [t |-> "meta", v |-> [name |-> name, value |-> value, result |-> result]]

\* customer.set_meta(name, value)
DoSetMeta ==
    /\ IsRecord /\ obj.kind = "Customer"
    /\ \E name \in MetaNames : \E value \in MetaValues :
          Apply("set_meta", "", MetaCall(name, value, NoneV), SetMeta(obj, name, value))

\* customer.get_meta(name, default)
DoGetMeta ==
    /\ IsRecord /\ obj.kind = "Customer"
    /\ \E name \in MetaNames : \E default \in {NoneV, StrV(TextB)} :
          Apply("get_meta", "", MetaCall(name, default, GetMeta(obj, name, default)),
                Ok(obj))

InitMeta ==
    /\ obj \in MetaCustomers
    /\ phase = "new"
    /\ last = [op |-> "init", key |-> "", value |-> NoneV, exc |-> "none",
               ret |-> "none", call |-> NoCall]
    /\ sent = <<>>

NextMeta ==
    \/ DoSetMeta
    \/ DoGetMeta
    \/ Assign
    \/ Save

SpecMeta == InitMeta /\ [][NextMeta]_vars

-----------------------------------------------------------------------------
(* The properties of records: identity, assignment and the diff *)

\* C1: once the ID of a record is non-empty, no operation on the record
\* (assignment, load, save, add, delete) changes it or empties it.
\* The loader assigns _id from the element it is handed, whatever the
\* record's ID was.
IdNeverChanges ==
    [][(IsRecord /\ obj.id # NoneS) => obj'.id = obj.id]_vars

\* C2: assigning `code` to a record whose ID is non-empty raises the
\* immutable-field error (AttributeError), assigning `id` raises it in any
\* state, and both leave the ID, the code, the fields and the snapshot as
\* they were; assigning `code` while the ID is empty returns and sets the
\* code.
ImmutableIdentity ==
    [][(IsRecord /\ last'.op = "setattr" /\ last'.key \in {"code", "id"}) =>
          IF last'.key = "id" \/ obj.id # NoneS
          THEN /\ last'.exc = "AttributeError"
               /\ obj'.id = obj.id /\ obj'.code = obj.code
               /\ obj'.data = obj.data /\ obj'.clean = obj.clean
          ELSE /\ last'.exc = "none"
               /\ obj'.code = last'.value.v
               /\ obj'.id = obj.id]_vars

\* C2, the case reached: `code` was assigned to a record that has an ID,
\* and the assignment raised
CodeAssignmentRejected ==
    /\ IsRecord /\ obj.id # NoneS
    /\ last.op = "setattr" /\ last.key = "code" /\ last.exc = "AttributeError"

\* the value a field is compared with in the snapshot: none when the
\* snapshot does not hold the field
IsNewValue(o, key, value) ==
    ~(key \in DOMAIN o.clean /\ PyEq(o.clean[key], value))

\* C3: right after _load_data_from_xml(xml, clean=True) the diff of any
\* record is empty, and after a following assignment of a field to a new
\* value the field is in the diff with that value.
CleanLoadEmptiesDiff ==
    [][IsRecord =>
          /\ (last'.op = "load_clean" /\ last'.exc = "none")
                => BuildKwargs(obj') = EmptyMap
          /\ (/\ last.op = "load_clean" /\ last.exc = "none"
              /\ last'.op = "setattr" /\ last'.exc = "none"
              /\ last'.key \notin {"code", "id"}
              /\ IsNewValue(obj, to_underscores(last'.key), last'.value))
                => /\ to_underscores(last'.key) \in DOMAIN BuildKwargs(obj')
                   /\ BuildKwargs(obj')[to_underscores(last'.key)] = last'.value]_vars

\* the one assignment of a round trip: a field of a record that from_xml
\* built is assigned, and the assignment returns
RoundTripStep ==
    /\ IsRecord /\ phase = "from_xml"
    /\ last'.op = "setattr" /\ last'.exc = "none"
    /\ last'.key \notin {"code", "id"}

\* C4 as stated: after from_xml and one assignment name := value the diff
\* is exactly {name: value}, for every kind and field, also when the value
\* is the one the field had and for `quantity` on an item of a plan.
RoundTripExactPair ==
    [][RoundTripStep =>
          BuildKwargs(obj') = Put(EmptyMap, to_underscores(last'.key), last'.value)]_vars

\* the name a field is stored under: Item stores `quantity` of an item of a
\* plan as quantity_included
StoredName(o, key) ==
    IF o.kind = "Item" /\ key = "quantity" /\ "plan" \in DOMAIN o.dict
    THEN "quantity_included"
    ELSE to_underscores(key)

\* C4 as amended: after from_xml and one assignment name := value that
\* returns, the diff holds the stored name with the stored value exactly
\* when that value differs from the snapshot of the stored name, and no
\* other field; the stored value is the assigned one (digits only for
\* cc_number, the MM/YYYY form for cc_expiration); the diff of a
\* Subscription whose plan has no ID holds plan_code besides.
RoundTripDiff ==
    [][RoundTripStep =>
          LET k == StoredName(obj, last'.key)
              d == BuildKwargs(obj')
          IN  /\ k \in DOMAIN obj'.data
              /\ DOMAIN d \ {"plan_code"} =
                    IF IsNewValue(obj, k, obj'.data[k]) THEN {k} ELSE {}
              /\ k \in DOMAIN d => d[k] = obj'.data[k]
              /\ k \notin {"cc_number", "cc_expiration"}
                    => obj'.data[k] = last'.value
              /\ k = "cc_number"
                    => obj'.data[k] = StrV(StripNonDigits(last'.value.v))
              /\ k = "cc_expiration" => Len(obj'.data[k].v) = 7
              /\ "plan_code" \in DOMAIN d
                    <=> (obj.kind = "Subscription" /\ obj.dict["plan"].v.id = NoneS)
              /\ "plan_code" \in DOMAIN d
                    => d["plan_code"] = OfStr(obj.dict["plan"].v.code)]_vars

\* C4, the case reached: one field of a record from from_xml was assigned
\* a new value and the diff is that one pair
RoundTripOnePair ==
    /\ IsRecord /\ phase = "from_xml+1"
    /\ last.op = "setattr" /\ last.exc = "none" /\ last.key = "name"
    /\ "name" \in DOMAIN obj.clean /\ obj.clean["name"] # last.value
    /\ BuildKwargs(obj) = Put(EmptyMap, "name", last.value)

-----------------------------------------------------------------------------
(* The properties of the transport *)

\* a direct call of request() with an identifier that issued a POST, or
\* was refused before one
CalledWithCode == last.op = "request" /\ last.call.code # NoneS

\* the names of the segments of the URL of the POST
SegmentNames(post) == {post.url.segs[i].name : i \in DOMAIN post.url.segs}

\* the identifier is in the URL under `name` and under no other name, and
\* the POST fields are the keyword arguments of the call
RoutedAs(call, name) ==
    LET post == call.out.posted[1]
    IN  /\ \E i \in DOMAIN post.url.segs :
              post.url.segs[i] = Segment(name, call.code)
        /\ SegmentNames(post) \cap {"id", "code"} = {name}
        /\ post.fields = Mangle(call.kwargs)

\* the identifier is the field `code` of the POST and not in the URL
SentAsField(call) ==
    LET post == call.out.posted[1]
    IN  /\ SegmentNames(post) \cap {"id", "code"} = {}
        /\ "code" \in DOMAIN post.fields
        /\ post.fields["code"] = StrV(call.code)

\* 8-4-4-4-12 characters of `hex`, with dashes between the groups
Shaped(s, hex) ==
    /\ Len(s) = 36
    /\ \A i \in 1..36 : IF i \in {9, 14, 19, 24} THEN s[i] = "-" ELSE s[i] \in hex

HexEitherCase == HexLower \cup {"A", "B", "C", "D", "E", "F"}

\* what the routing of request() does with identifiers of the shape `shaped`
RoutesBy(shaped) ==
    CalledWithCode =>
        IF ~IsCreationPath(last.call.path)
        THEN last.call.out.posted # <<>> =>
                RoutedAs(last.call, IF shaped THEN "id" ELSE "code")
        ELSE IF shaped
             THEN last.exc = "ValueError" /\ last.call.out.posted = <<>>
             ELSE last.call.out.posted # <<>> => SentAsField(last.call)

\* C5 as stated: on a path that is no creation endpoint an identifier of the
\* UUID shape, in either letter case, goes into the URL as /id/<value> and
\* any other as /code/<value>, never both and never into the fields; on a
\* path ending in `new` an identifier of the UUID shape raises ValueError
\* before any POST and any other is sent as the field `code`.
RoutesUuidOfEitherCase == RoutesBy(Shaped(last.call.code, HexEitherCase))

\* the identifiers the pattern of request() matches: the shape in digits
\* and the letters a-f, also with one newline after it
MatchesPattern(s) ==
    \/ Shaped(s, HexLower)
    \/ (Len(s) = 37 /\ s[37] = "\n" /\ Shaped(SubSeq(s, 1, 36), HexLower))

\* C5 as amended: the same, for the identifiers of the UUID shape written
\* with digits and the lower-case letters a-f (one newline after the shape
\* is accepted); an identifier with an upper-case letter is a code.
RoutesLowerCaseUuid == RoutesBy(MatchesPattern(last.call.code))

\* C5, the case reached: a lower-case UUID went into the URL as /id/<value>
UuidRoutedAsId ==
    /\ CalledWithCode /\ last.call.code = UuidLower
    /\ ~IsCreationPath(last.call.path)
    /\ last.call.out.posted # <<>>
    /\ RoutedAs(last.call, "id")

\* a direct call of request() whose POST the server answered
Answered ==
    /\ last.op = "request" /\ last.call.out.posted # <<>>
    /\ last.call.answer.conn = "ok"

\* the typed failure of a status code
TypedFailure(status) ==
    CASE status \in {400, 412} -> "BadRequest"
      [] status = 401 -> "AuthorizationRequired"
      [] status = 403 -> "Forbidden"
      [] status = 404 -> "NotFound"
      [] status = 422 -> "GatewayFailure"
      [] status = 502 -> "GatewayConnectionError"
      [] OTHER -> "UnexpectedResponse"

\* what request() does with an answer, when the statuses of `failing` are
\* the ones that raise by status
DecodesBy(failing) ==
    Answered =>
        LET answer == last.call.answer
            out == last.call.out
        IN  IF answer.status \in failing
            THEN /\ out.exc = TypedFailure(answer.status)
                 /\ out.carries
                 /\ ~answer.body.parsed => out.msg = <<>>
            ELSE IF ~answer.body.parsed \/ answer.body.root.tag = "error"
                 THEN out.exc = "UnexpectedResponse"
                 ELSE out.exc = "none" /\ out.content = answer.body.root

\* C6 as stated: every status that is not 2xx raises the typed failure of
\* the status (UnexpectedResponse for the statuses without one), with the
\* response and with an empty message when the body is no XML; a 2xx
\* status raises UnexpectedResponse for a body that is no XML or whose
\* root is `error`, and returns the root of any other body.
RaisesForEveryNon2xx == DecodesBy(Statuses \ (200..299))

\* C6 as amended: the statuses that raise by status are 400 to 599; any
\* other status, 1xx and 3xx included, is decoded as a 2xx status is.
RaisesForEvery4xx5xx == DecodesBy(Statuses \cap (400..599))

\* C6, the case reached: status 412 raised BadRequest
PreconditionFailedIsBadRequest ==
    /\ Answered /\ last.call.answer.status = 412
    /\ last.exc = "BadRequest"

\* C7: a POST that exceeds the timeout raises Timeout and a connection that
\* cannot be made raises ConnectionError, and nothing else is raised in these
\* two cases.
TypedNetworkFailures ==
    (last.op = "request" /\ last.call.out.posted # <<>>) =>
        /\ last.call.answer.conn = "timeout" => last.exc = "Timeout"
        /\ last.call.answer.conn = "refused" => last.exc = "ConnectionError"

-----------------------------------------------------------------------------
(* The properties of save, delete, add and validate *)

\* the classes that inherit save() from CheddarObject, as the claim lists
\* them, and the ones that inherit delete()
InheritSave == {"CheddarObject", "Promotion", "Invoice", "Charge",
                "Transaction", "Coupon", "Incentive", "Metadatum"}

InheritDelete == InheritSave \cup {"Item"}

\* C8: save() and delete() of a class that does not override them raise
\* NotImplementedError, send no request and leave the record as it was.
DefaultsNotImplemented ==
    [][(/\ IsRecord
        /\ \/ last'.op = "save" /\ obj.kind \in InheritSave
           \/ last'.op = "delete" /\ obj.kind \in InheritDelete)
          => /\ last'.exc = "NotImplementedError"
             /\ sent' = <<>>
             /\ obj' = obj]_vars

\* the required fields of a customer
AllRequiredFields(o) == {"first_name", "last_name", "email"} \subseteq DOMAIN o.data

\* the subscription's validate() returns False: its plan is not known to be
\* free and a card field is missing or empty
SubscriptionFails(sub) ==
    /\ SubscriptionValidate(sub).exc = "none"
    /\ ~SubscriptionValidate(sub).ok

\* C9: Customer.validate() raises ValidationError when the code is unset or
\* empty, when the subscription's validate() reports failure, or when one
\* of first_name, last_name, email is missing, and returns True otherwise.
CustomerValidateCases ==
    (/\ IsRecord /\ obj.kind = "Customer" /\ last.op = "validate"
     /\ SubscriptionValidate(obj.dict["subscription"].v).exc = "none") =>
        IF \/ obj.code \in {NoneS, <<>>}
           \/ SubscriptionFails(obj.dict["subscription"].v)
           \/ ~AllRequiredFields(obj)
        THEN last.exc = "ValidationError"
        ELSE last.exc = "none" /\ last.ret = "True"

\* the item after self.quantity += quantity
Incremented(o, quantity) ==
    ItemSetAttr(o, "quantity", PyAdd(GetAttr(o, "quantity").value, quantity)).obj

\* validation fails in the step: Customer.validate or Item.validate raises,
\* or Item.validate returns False; Item.add validates the incremented item
ValidationFails ==
    /\ IsRecord
    /\ \/ /\ last'.op = "save" /\ obj.kind = "Customer"
          /\ CustomerValidate(obj).exc # "none"
       \/ /\ last'.op = "save" /\ obj.kind = "Item"
          /\ ~(ItemValidate(obj).exc = "none" /\ ItemValidate(obj).ok)
       \/ /\ last'.op = "add" /\ obj.kind = "Item"
          /\ GetAttr(obj, "quantity").exc = "none"
          /\ IsNumber(GetAttr(obj, "quantity").value)
          /\ ~(/\ ItemValidate(Incremented(obj, last'.value)).exc = "none"
               /\ ItemValidate(Incremented(obj, last'.value)).ok)

\* C10 as stated: Customer.save(), Item.save() and Item.add() validate
\* before any request; when validation fails no request is sent and the
\* record's fields, snapshot, ID and code are as before the call.
FailedValidationChangesNothing ==
    [][ValidationFails => sent' = <<>> /\ obj' = obj]_vars

\* C10 as amended: when validation fails no request is sent and the
\* snapshot, the ID and the code are as before the call; so are the fields,
\* but for Item.add(), which has added to the quantity before it validates.
FailedValidationSendsNothing ==
    [][ValidationFails =>
          /\ sent' = <<>>
          /\ IF last'.op = "add" THEN obj' = Incremented(obj, last'.value)
             ELSE obj' = obj
          /\ obj'.clean = obj.clean /\ obj'.id = obj.id /\ obj'.code = obj.code]_vars

\* C10, the case reached: Item.add() raised ValidationError, sent nothing
\* and left the sum in the quantity
AddFailedValidation ==
    /\ IsRecord /\ obj.kind = "Item"
    /\ last.op = "add" /\ last.exc = "ValidationError" /\ sent = <<>>
    /\ "quantity" \in DOMAIN obj.data
    /\ IsNewValue(obj, "quantity", obj.data["quantity"])

-----------------------------------------------------------------------------
(* The properties of Customer.save and Item.validate *)

\* the one request of a save, when it is the only one sent
OnlyRequest(reqs, path) == Len(reqs) = 1 /\ reqs[1].url.path = StripSlashes(path)

\* the fields of the create request: the code, the plan code, the coupon
\* code when the subscription has one and the payment fields it holds
CarriesNewCustomer(fields, o, sub) ==
    /\ "code" \in DOMAIN fields /\ fields["code"] = StrV(o.code)
    /\ "subscription[planCode]" \in DOMAIN fields
    /\ fields["subscription[planCode]"] = OfStr(sub.dict["plan"].v.code)
    /\ "coupon_code" \in DOMAIN sub.data =>
          /\ "subscription[couponCode]" \in DOMAIN fields
          /\ fields["subscription[couponCode]"] = sub.data["coupon_code"]
    /\ \A i \in 1..Len(CardFields) :
          CardFields[i] \in DOMAIN sub.data =>
             /\ to_camel_case(SubscriptionKey(CardFields[i])) \in DOMAIN fields
             /\ fields[to_camel_case(SubscriptionKey(CardFields[i]))]
                   = sub.data[CardFields[i]]

\* the fields of the edit request: the diff of the customer and the changed
\* fields of the subscription
CarriesEdit(fields, o, sub) ==
    /\ \A k \in DirtyKeys(o) :
          /\ to_camel_case(k) \in DOMAIN fields
          /\ fields[to_camel_case(k)] = o.data[k]
    /\ \A k \in DirtyKeys(sub) :
          /\ to_camel_case(SubscriptionKey(k)) \in DOMAIN fields
          /\ fields[to_camel_case(SubscriptionKey(k))] = sub.data[k]

\* the customer after the reload from an answer whose root is `root`
ReloadedFrom(o, root) ==
    IF FirstWithTag(root, "customer").found
    THEN LoadXml(o, FirstWithTag(root, "customer").xml, TRUE).obj
    ELSE o

\* C11: Customer.save() of a customer that passes validation, whether or
\* not its subscription has unsaved changes, sends exactly one request: to
\* /customers/new/ iff the customer has no ID (the code as a field, the
\* plan code, the coupon code and the payment fields of the subscription),
\* otherwise to /customers/edit/ (the code in the URL, the diff of the
\* customer and the changed fields of the subscription); when the request
\* returns, the customer is reloaded from the first customer element of the
\* answer, and a customer created with an ID in the answer is not new.
\* The edit branch unpacks the keys of the subscription's diff as pairs
\* and raises ValueError before any request (C3: the diff of a subscription
\* whose plan has no ID is never empty).
SaveSendsOneRequest ==
    [][(/\ IsRecord /\ obj.kind = "Customer" /\ last'.op = "save"
        /\ CustomerValidate(obj).exc = "none")
          => /\ IF obj.id = NoneS
                THEN /\ OnlyRequest(sent', CustomersNew)
                     /\ CarriesNewCustomer(sent'[1].fields, obj,
                                           obj.dict["subscription"].v)
                ELSE /\ OnlyRequest(sent', CustomersEdit)
                     /\ sent'[1].url.segs[1] = Segment("code", obj.code)
                     /\ CarriesEdit(sent'[1].fields, obj,
                                    obj.dict["subscription"].v)
             /\ last'.exc = "none" =>
                   /\ \E root \in ResponseRoots : obj' = ReloadedFrom(obj, root)
                   /\ obj'.id # NoneS => ~is_new(obj')]_vars

-----------------------------------------------------------------------------
(* The properties of the plan of a subscription *)

\* C12: in every state of a Subscription (constructed, loaded from XML,
\* after assignments of a Plan or of a plan code to `plan` or `plan_code`,
\* also of a code the lookup finds no plan for) the attribute `plan` is a
\* Plan, never None or a string, and reading `plan_code` (or `planCode`)
\* returns the code of that plan.
PlanIsAlwaysRecord ==
    (IsRecord /\ obj.kind = "Subscription") =>
        /\ "plan" \in DOMAIN obj.dict
        /\ obj.dict["plan"].t = "obj"
        /\ obj.dict["plan"].v.kind = "Plan"
        /\ \A key \in {"plan_code", "planCode"} :
              GetAttr(obj, key) = Got(OfStr(obj.dict["plan"].v.code))

\* C12, the case reached: a code was assigned, the lookup found no plan
\* for it, the lookup that followed found one, and `plan` is that Plan
PlanAfterNothingFound ==
    /\ IsRecord /\ obj.kind = "Subscription"
    /\ last.op = "setattr_plan" /\ last.value = StrV(CodeC1) /\ last.exc = "none"
    /\ Len(sent) = 2
    /\ sent[1].url.segs[1] = Segment("code", CodeC1)
    /\ obj.dict["plan"].v.kind = "Plan" /\ obj.dict["plan"].v.id # NoneS

\* C15: every assignment of a plan code to `plan` or `plan_code` ends after
\* a bounded number of lookups whatever the server answers, not-found and
\* an empty list of plans included: it returns or raises the error of a
\* lookup, and never re-enters itself until the interpreter's recursion
\* limit stops it.
\* self.plan = Plan.get(value) assigns None when no plan is found, which
\* enters the plan branch again, for as long as the server finds no plan.
PlanAssignmentEnds ==
    (IsRecord /\ last.op = "setattr_plan" /\ last.value.t = "str") =>
        last.exc # "RuntimeError"

-----------------------------------------------------------------------------
(* The properties of attribute assignment and reading *)

\* C13: assigning cc_expiration on a Subscription, in every calendar year
\* and for every input of the form MMYY or MM/YY, returns and stores the
\* seven characters MM/CCYY: the month as given, "/" at index 2 and the
\* two-digit year after the two digits of a century; an input of the form
\* MM/YYYY is stored as given, so that normalising a stored value again
\* changes nothing.
\* In the years 91 to 99 of a century the code evaluates int(value[2:]) on
\* "/YY", which raises ValueError.
ExpirationNormalised ==
    [][(/\ IsRecord /\ obj.kind = "Subscription" /\ last'.op = "setattr"
        /\ to_underscores(last'.key) = "cc_expiration")
          => /\ last'.exc = "none"
             /\ LET given == last'.value.v
                    stored == obj'.data["cc_expiration"].v
                IN  /\ Len(stored) = 7
                    /\ SubSeq(stored, 1, 2) = SubSeq(given, 1, 2)
                    /\ stored[3] = "/"
                    /\ SubSeq(stored, 6, 7) = SubSeq(given, Len(given) - 1, Len(given))
                    /\ Len(given) = 7 => stored = given
                    /\ \E y \in Years : SubSeq(stored, 4, 5) = Century(y)
                    /\ \A y \in Years :
                          NormalizeExpiration(StrV(stored), y)
                             = [exc |-> "none", value |-> StrV(stored)]]_vars

\* C14: Item.validate() raises ValidationError in every case but one, the
\* item attached to a customer with a diff of the single field `quantity`:
\* it raises without a customer, with another field changed, with quantity
\* and another field changed, and with nothing changed; and whenever it
\* does not raise, Item.save() sends exactly one set-item-quantity request
\* with the item's quantity.
\* With nothing changed validate() returns False instead of raising, and
\* save() then sends nothing.
ItemValidateCases ==
    [][(IsRecord /\ obj.kind = "Item") =>
          /\ last'.op = "validate" =>
                IF HasAttr(obj, "customer") /\ DOMAIN BuildKwargs(obj) = {"quantity"}
                THEN last'.exc = "none" /\ last'.ret = "True"
                ELSE last'.exc = "ValidationError"
          /\ (last'.op = "save" /\ ItemValidate(obj).exc = "none") =>
                /\ OnlyRequest(sent', CustomersSetItemQuantity)
                /\ sent'[1].fields = Put(EmptyMap, "quantity", obj.data["quantity"])]_vars

\* a read that follows the assignment of the same field, in either spelling
ReadsBack ==
    /\ last.op = "setattr" /\ last.exc = "none"
    /\ last'.op = "getattr"
    /\ to_underscores(last'.key) = to_underscores(last.key)

\* a read of a name that was never set and is no association
ReadsUnset ==
    /\ last'.op = "getattr"
    /\ to_underscores(last'.key) \notin DOMAIN obj.data
    /\ last'.key \notin DOMAIN obj.dict

\* C16: on the generic record, after name := v for a field name (no leading
\* "_", not id or code) and a scalar v, reading the name returns v, whether
\* it is written in snake_case or in camelCase, and reading either spelling
\* returns the same value; reading a name that was never set and is no
\* association raises AttributeError.
\* __getattr__ tests `key in self._data` with the name as written, so a
\* camelCase name is never found; and a name that a dict has as a method
\* is answered with that method.
SetGetRoundTrip ==
    [][IsRecord =>
          /\ ReadsBack => last'.exc = "none" /\ last'.value = last.value
          /\ ReadsUnset => last'.exc = "AttributeError"]_vars

-----------------------------------------------------------------------------
(* The properties of the metadata of a customer *)

\* the metadata list of a customer
MetaList(o) == o.dict["meta_data"].v

\* no two entries of the list have the same name
OnePerName(o) ==
    \A i, j \in DOMAIN MetaList(o) :
        i # j => MetaList(o)[i].data["name"] # MetaList(o)[j].data["name"]

\* the list holds an entry with the name
HasMeta(o, name) ==
    \E i \in DOMAIN MetaList(o) : MetaList(o)[i].data["name"] = name

\* every entry of the list of o under another name is an entry of the
\* list of p
OthersKept(o, p, name) ==
    \A i \in DOMAIN MetaList(o) :
        MetaList(o)[i].data["name"] # name =>
            \E j \in DOMAIN MetaList(p) : MetaList(p)[j] = MetaList(o)[i]

\* the fields of a request hold every entry of the list as metaData[<name>]
CarriesMeta(fields, o) ==
    \A i \in DOMAIN MetaList(o) :
        /\ MetaKey(MetaList(o)[i].data["name"]) \in DOMAIN fields
        /\ fields[MetaKey(MetaList(o)[i].data["name"])] = MetaList(o)[i].data["value"]

\* C17: after any sequence of set_meta(name, value) calls on a customer
\* whose list starts with at most one entry per name, the list holds at
\* most one Metadatum per name, get_meta(name) returns the value of the
\* most recent set_meta for the name (and the default for a name never
\* set), the entries for other names are unchanged, set_meta and get_meta
\* send no request, and the entries are sent by the next Customer.save()
\* as the fields metaData[<name>].
\* request() renames every key that holds an underscore to camelCase, the
\* name inside metaData[...] included.
MetadataContract ==
    [][(IsRecord /\ obj.kind = "Customer") =>
          /\ last'.op = "set_meta" =>
                /\ OnePerName(obj')
                /\ sent' = <<>> /\ last'.exc = "none"
                /\ \A default \in {NoneV, StrV(TextB)} :
                      GetMeta(obj', last'.value.v.name, default) = last'.value.v.value
                /\ OthersKept(obj, obj', last'.value.v.name)
                /\ Len(MetaList(obj')) <= Len(MetaList(obj)) + 1
          /\ last'.op = "get_meta" =>
                /\ sent' = <<>> /\ last'.exc = "none" /\ obj' = obj
                /\ ~HasMeta(obj, last'.value.v.name)
                      => last'.value.v.result = last'.value.v.value
                /\ (last.op = "set_meta" /\ last.value.v.name = last'.value.v.name)
                      => last'.value.v.result = last.value.v.value
          /\ (last'.op = "save" /\ sent' # <<>>) =>
                CarriesMeta(sent'[1].fields, obj)]_vars

=============================================================================
